---- MODULE Spec2Model ----
(***************************************************************************)
(* A model of the core of seth (smartcontractkit/seth): nonce             *)
(* coordination, transaction options, the transaction lifecycle with gas  *)
(* bumping, and the LFU header cache.                                      *)
(*                                                                         *)
(* Each component has its own specification over the shared variables:     *)
(*   NonceSpec     NonceManager.NextNonce / UpdateNonces against the node  *)
(*   TransferSpec  concurrent Client.TransferETHFromKey goroutines         *)
(*   OptsSpec      Client.NewTXOpts / NewTXKeyOpts                         *)
(*   LifeSpec      RetryTxAndDecode, Decode, WaitMined, bumpGasOnTimeout   *)
(*   CacheSpec     LFUBlockCache Get / Set / evict                         *)
(*   ItemSpec      the header objects LFUBlockCache holds                  *)
(*   GasSpec       the fee estimation; WeiSpec with amounts in wei         *)
(*   DecodeSpec    Client.Decode and the Tracer                            *)
(*   ReconSpec     the missing-call reconciliation of DecodeTrace          *)
(*   TracersSpec   concurrent Decode calls with tracing                    *)
(*   BuiltSpec     Decode of the transactions built with NewTXOpts         *)
(*   MapSpec       the contract map                                        *)
(*   WaitSpec      WaitMined                                               *)
(*   FanSpec       the header fan-out of the congestion metric             *)
(*   EqSpec        the fee equalizer                                       *)
(*   BumpSpec      the priority-based gas bump strategies                  *)
(* A specification leaves the variables of the other components at their   *)
(* initial values.                                                         *)
(***************************************************************************)
EXTENDS Integers, Sequences, FiniteSets, TLC

VARIABLES
    \* ---- NonceManager and the node's view of the accounts
    Nonces,      \* NonceManager.Nonces: key number -> next nonce to hand out
    remote,      \* the node's pending-transaction count of each key's address
    issued,      \* history: per key, the values NextNonce returned, in order
    upd,         \* the UpdateNonces call in progress
    \* ---- Client.TransferETHFromKey goroutines
    xfer,        \* per goroutine: position in TransferETHFromKey and its locals
    got,         \* history: per goroutine, the <<key, nonce>> pairs put in rawTx
    \* ---- Client.NewTXOpts / NewTXKeyOpts
    netCfg,      \* Cfg.Network fields read by configureTransactionOpts
    Errors,      \* Client.Errors
    optsLog,     \* history: per key, the options returned, in order
    \* ---- transaction lifecycle
    life,        \* RetryTxAndDecode / Decode / WaitMined position, configuration and result
    tx,          \* the transaction being watched
    node,        \* the node: variants it accepted, the variant it included
    signedTxs,   \* history: replacements signed by bumpGasOnTimeout
    lastBump,    \* history: what the last bumpGasOnTimeout call saw and did
    \* ---- LFUBlockCache
    capacity,    \* LFUBlockCache.capacity
    cache,       \* LFUBlockCache.cache: block number -> frequency
    lastSet,     \* history: the last Set(block) call and the cache it found
    mu,          \* LFUBlockCache.mu: 0 when unlocked, else the goroutine holding it
    callers,     \* per goroutine: position in Get / Set and its locals
    hits,        \* history: per cached block, one for its insertion plus one per later hit
    items,       \* per cached block number: cacheItem.block, and the first and the last object Set stored
    gasCfg,      \* Cfg.Network: GasLimit and GasEstimationMaxTxCostWei
    est,         \* the fee estimation call: inputs, result and the fees its caller uses
    tracing,     \* the tracing level of the client
    dec,         \* the Decode call: inputs and what it returned
    DecodedCalls, \* Tracer.DecodedCalls: transaction hash -> decoded calls
    tracers,     \* per goroutine calling Decode with tracing: position in DecodeTrace and its calls
    contractMap, \* Client.ContractAddressToNameMap
    deployers,   \* per goroutine: position in DeployContract, the address and the name
    observed,    \* history: per address, the names readers of the map have seen
    fatal,       \* the runtime stopped the process on a concurrent map access
    wm,          \* the WaitMined call: its context, ticker, position and result
    fan,         \* the header fan-out: goroutines, dataCh, headers and what the caller read
    eq,          \* the fee equalizer step of an EIP-1559 estimation: inputs and outputs
    bump         \* a call of a priority-based gas bump strategy: its input and what it returned

nonceVars == <<Nonces, remote, issued, upd>>
xferVars  == <<xfer, got>>
optsVars  == <<netCfg, Errors, optsLog>>
lifeVars  == <<life, tx, node, signedTxs, lastBump>>
cacheVars == <<capacity, cache, lastSet, mu, callers, hits, items>>
gasVars == <<gasCfg, est>>
decodeVars == <<tracing, dec, DecodedCalls, tracers>>
mapVars == <<contractMap, deployers, observed, fatal>>
waitVars == <<wm>>
fanVars == <<fan>>
eqVars == <<eq>>
bumpVars == <<bump>>
vars == <<Nonces, remote, issued, upd, xfer, got, netCfg, Errors, optsLog,
          life, tx, node, signedTxs, lastBump, capacity, cache, lastSet,
          mu, callers, hits, items, gasCfg, est, tracing, dec, DecodedCalls, tracers,
          contractMap, deployers, observed, fatal, wm, fan, eq, bump>>

(***************************************************************************)
(* The client's keys, and bounds                                           *)
(***************************************************************************)
\* Client.Addresses and Client.PrivateKeys, as Config.ParseKeys builds them.
Addresses == <<"A0", "A1">>
PrivateKeys == <<"K0", "K1">>

NumKeys == Len(Addresses)   \* key number 0 is the root key
MaxNonce == 3         \* nonces and pending counts range over 0..MaxNonce
KeySyncRetries == 2   \* nonce_manager.key_sync_retries

KeyNums == 0..(NumKeys - 1)
NonceRange == 0..MaxNonce

Max(a, b) == IF a >= b THEN a ELSE b

(***************************************************************************)
(* NonceManager                                                            *)
(***************************************************************************)
NoValue == -1

UpdIdle ==
    [pc |-> "idle", key |-> 0, attempts |-> 0,
     pre |-> [k \in KeyNums |-> NoValue],
     raced |-> [k \in KeyNums |-> FALSE],
     failedKey |-> NoValue]

InitNonceVars ==
    /\ remote \in [KeyNums -> 0..1]
    /\ Nonces = remote          \* NewClientRaw runs UpdateNonces before handing out the client
    /\ issued = [k \in KeyNums |-> <<>>]
    /\ upd = UpdIdle

IdleNonceVars ==
    /\ remote = [k \in KeyNums |-> 0]
    /\ Nonces = [k \in KeyNums |-> 0]
    /\ issued = [k \in KeyNums |-> <<>>]
    /\ upd = UpdIdle

\* The counter after NextNonce handed out the current value.
NonceAfterIssueStuck(n) == n
NonceAfterIssue(n) == n + 1

\* NextNonce(addr): atomically returns the counter of addr and increments it.
\* raced marks a key whose counter moved while an UpdateNonces call was under way.
NextNonce(k) ==
    /\ Nonces[k] < MaxNonce
    /\ issued' = [issued EXCEPT ![k] = Append(@, Nonces[k])]
    /\ Nonces' = [Nonces EXCEPT ![k] = NonceAfterIssue(@)]
    /\ upd' = IF upd.pc # "idle" THEN [upd EXCEPT !.raced[k] = TRUE] ELSE upd
    /\ UNCHANGED remote

\* The value reconciliation leaves in the counter: the remote value replaces
\* the local one iff it is greater.
ReconciledLower(local, pending) == pending
Reconcile(local, pending) == IF pending > local THEN pending ELSE local

UpdateNoncesStart ==
    /\ upd.pc = "idle"
    /\ upd' = [UpdIdle EXCEPT !.pc = "query", !.pre = Nonces]
    /\ UNCHANGED <<Nonces, remote, issued>>

\* One attempt to read the pending count of the current key failed; another is left.
SyncKeyRetry ==
    /\ upd.pc = "query"
    /\ upd.attempts + 1 < KeySyncRetries
    /\ upd' = [upd EXCEPT !.attempts = @ + 1]
    /\ UNCHANGED <<Nonces, remote, issued>>

\* The last permitted attempt failed: the whole operation fails, naming the key.
SyncKeyExhausted ==
    /\ upd.pc = "query"
    /\ upd.attempts + 1 >= KeySyncRetries
    /\ upd' = [upd EXCEPT !.pc = "failed", !.failedKey = upd.key]
    /\ UNCHANGED <<Nonces, remote, issued>>

\* The node answers with the pending count of the current key, which is p by now.
SyncKeyFetched(p) ==
    /\ upd.pc = "query"
    /\ remote' = [remote EXCEPT ![upd.key] = p]
    /\ upd' = [upd EXCEPT !.pc = "write"]
    /\ UNCHANGED <<Nonces, issued>>

\* Under the key's write lock: compare and replace, then move to the next key.
SyncKeyWrite ==
    /\ upd.pc = "write"
    /\ LET k == upd.key
       IN /\ Nonces' = [Nonces EXCEPT ![k] = Reconcile(Nonces[k], remote[k])]
          /\ upd' = [upd EXCEPT !.attempts = 0,
                                !.key = IF k + 1 < NumKeys THEN k + 1 ELSE k,
                                !.pc = IF k + 1 < NumKeys THEN "query" ELSE "ok"]
    /\ UNCHANGED <<remote, issued>>

\* UpdateNonces returns to its caller, with or without an error.
UpdateNoncesReturn ==
    /\ upd.pc \in {"ok", "failed"}
    /\ upd' = UpdIdle
    /\ UNCHANGED <<Nonces, remote, issued>>

\* The node: another transaction of the address entered the pool.
RemoteAdvance(k) ==
    /\ remote[k] < MaxNonce
    /\ remote' = [remote EXCEPT ![k] = @ + 1]
    /\ UNCHANGED <<Nonces, issued, upd>>

(***************************************************************************)
(* Client.TransferETHFromKey, called once by each of the goroutines that   *)
(* NewClientRaw starts to fund the ephemeral addresses                     *)
(***************************************************************************)
NumGoroutines == 2    \* goroutines calling TransferETHFromKey concurrently

Goroutines == 1..NumGoroutines

ErrNoKeyLoaded == "failed to load private key"
ErrNetworkID == "failed to get network ID"
ErrSendTransaction == "failed to send transaction"
ErrDeadlineExceeded == "context deadline exceeded"
ErrIndexOutOfRange == "panic: index out of range"

XferIdle == [pc |-> "idle", key |-> 0, nonce |-> NoValue, err |-> "none"]

InitXferVars ==
    /\ xfer = [g \in Goroutines |-> XferIdle]
    /\ got = [g \in Goroutines |-> <<>>]

\* The entry of TransferETHFromKey: the key-number check.
TransferCall(g, fromKeyNum) ==
    /\ xfer[g].pc = "idle"
    /\ xfer' = [xfer EXCEPT ![g] =
                  IF fromKeyNum > NumKeys
                  THEN [XferIdle EXCEPT !.pc = "done", !.key = fromKeyNum, !.err = ErrNoKeyLoaded]
                  ELSE [XferIdle EXCEPT !.pc = "networkID", !.key = fromKeyNum]]
    /\ UNCHANGED <<got, nonceVars>>

TransferNetworkID(g, ok) ==
    /\ xfer[g].pc = "networkID"
    /\ xfer' = [xfer EXCEPT ![g] =
                  IF ok THEN [@ EXCEPT !.pc = "nonce"]
                  ELSE [@ EXCEPT !.pc = "done", !.err = ErrNetworkID]]
    /\ UNCHANGED <<got, nonceVars>>

\* m.Addresses[fromKeyNum] with fromKeyNum = len(m.Addresses) passes the entry check.
TransferIndexPanic(g) ==
    /\ xfer[g].pc = "nonce"
    /\ xfer[g].key \notin KeyNums
    /\ xfer' = [xfer EXCEPT ![g] = [@ EXCEPT !.pc = "done", !.err = ErrIndexOutOfRange]]
    /\ UNCHANGED <<got, nonceVars>>

\* The nonce the goroutine puts in rawTx.
TransferNonceStale(k) == remote[k]
TransferNonce(k) == Nonces[k]

\* Nonce: m.NonceManager.NextNonce(m.Addresses[fromKeyNum]).Uint64()
TransferNextNonce(g) ==
    /\ xfer[g].pc = "nonce"
    /\ xfer[g].key \in KeyNums
    /\ LET k == xfer[g].key
           n == TransferNonce(k)
       IN /\ NextNonce(k)
          /\ xfer' = [xfer EXCEPT ![g] = [@ EXCEPT !.pc = "send", !.nonce = n]]
          /\ got' = [got EXCEPT ![g] = Append(@, [key |-> k, nonce |-> n])]

\* SignNewTx and SendTransaction.
TransferSend(g, accepted) ==
    /\ xfer[g].pc = "send"
    /\ xfer' = [xfer EXCEPT ![g] =
                  IF accepted THEN [@ EXCEPT !.pc = "wait"]
                  ELSE [@ EXCEPT !.pc = "done", !.err = ErrSendTransaction]]
    /\ UNCHANGED <<got, nonceVars>>

\* WaitMined: the receipt arrives, or the context expires first.
TransferWaitMined(g, mined) ==
    /\ xfer[g].pc = "wait"
    /\ xfer' = [xfer EXCEPT ![g] =
                  [@ EXCEPT !.pc = "done", !.err = IF mined THEN "none" ELSE ErrDeadlineExceeded]]
    /\ UNCHANGED <<got, nonceVars>>

\* TransferETHFromKey returns; the goroutine ends.
TransferReturn(g) ==
    /\ xfer[g].pc = "done"
    /\ xfer' = [xfer EXCEPT ![g] = [@ EXCEPT !.pc = "returned"]]
    /\ UNCHANGED <<got, nonceVars>>

(***************************************************************************)
(* Client.NewTXOpts / NewTXKeyOpts                                         *)
(***************************************************************************)
MaxOptsCalls == 2       \* calls of NewTXOpts / NewTXKeyOpts in one run
CfgFee == 5             \* a non-zero gas_price / gas_fee_cap / gas_tip_cap of the network
SuggestedGasPrice == 2  \* the node's SuggestGasPrice answer
SuggestedGasTipCap == 1 \* the node's SuggestGasTipCap answer
CfgGasLimit == 4        \* gas_limit of the network

NilFee == -1            \* a nil *big.Int
ErrRPC == "rpc error"

InitOptsVars ==
    /\ netCfg \in { c \in [EIP1559DynamicFees : BOOLEAN, GasPrice : {0, CfgFee},
                          GasFeeCap : {CfgFee}, GasTipCap : {0, CfgFee},
                          GasLimit : {CfgGasLimit}] :
                      \* a legacy network sets no tip cap, an EIP-1559 one no gas price
                      IF c.EIP1559DynamicFees THEN c.GasPrice = 0 ELSE c.GasTipCap = 0 }
    /\ Errors = <<>>
    /\ optsLog = <<>>

IdleOptsVars ==
    /\ netCfg = [EIP1559DynamicFees |-> FALSE, GasPrice |-> 0, GasFeeCap |-> CfgFee,
                 GasTipCap |-> 0, GasLimit |-> CfgGasLimit]
    /\ Errors = <<>>
    /\ optsLog = <<>>

\* The outcomes of the node calls of getProposedTransactionOptions.
RPCOutcomes == {"ok", "nonceErr", "gasPriceErr", "tipErr"}

\* The nonce getProposedTransactionOptions proposes for a key.
ProposedNonceLocal(k) == Nonces[k]
ProposedNonce(k) == remote[k]

\* getProposedTransactionOptions(keyNum): <<ok, nonce, gasPrice, gasTipCap>>
getProposedTransactionOptions(keyNum, rpc) ==
    IF rpc = "nonceErr" THEN [ok |-> FALSE, nonce |-> 0, gasPrice |-> NilFee, gasTipCap |-> NilFee]
    ELSE IF rpc = "gasPriceErr" THEN [ok |-> FALSE, nonce |-> 0, gasPrice |-> NilFee, gasTipCap |-> NilFee]
    ELSE IF netCfg.EIP1559DynamicFees /\ rpc = "tipErr"
         THEN [ok |-> FALSE, nonce |-> 0, gasPrice |-> NilFee, gasTipCap |-> NilFee]
    ELSE [ok |-> TRUE, nonce |-> ProposedNonce(keyNum), gasPrice |-> SuggestedGasPrice,
          gasTipCap |-> IF netCfg.EIP1559DynamicFees THEN SuggestedGasTipCap ELSE NilFee]

\* configureTransactionOpts(opts, nonce, gasPrice, gasTipCap, o...): the options
\* record; withNonce is the value of a WithNonce option, NoValue when none is given.
configureTransactionOpts(p, withNonce) ==
    LET legacyPrice == IF netCfg.GasPrice = 0 THEN p.gasPrice ELSE netCfg.GasPrice
    IN [Nonce |-> IF withNonce # NoValue THEN withNonce ELSE p.nonce,
        GasPrice |-> IF netCfg.EIP1559DynamicFees THEN NilFee ELSE legacyPrice,
        GasLimit |-> netCfg.GasLimit,
        GasFeeCap |-> IF netCfg.EIP1559DynamicFees THEN netCfg.GasFeeCap ELSE NilFee,
        GasTipCap |-> IF ~netCfg.EIP1559DynamicFees THEN NilFee
                      ELSE IF netCfg.GasTipCap = 0 THEN p.gasTipCap ELSE netCfg.GasTipCap]

\* NewTXKeyOpts(keyNum, o...); NewTXOpts(o...) is the call with keyNum = 0.
NewTXKeyOpts(keyNum, rpc, withNonce) ==
    /\ Len(optsLog) < MaxOptsCalls
    /\ rpc = "tipErr" => netCfg.EIP1559DynamicFees
    /\ LET p == getProposedTransactionOptions(keyNum, rpc)
           opts == configureTransactionOpts(p, withNonce)
       IN /\ Errors' = IF p.ok THEN Errors ELSE Append(Errors, ErrRPC)
          /\ optsLog' = Append(optsLog, [key |-> keyNum, opts |-> opts, ok |-> p.ok,
                                         pending |-> remote[keyNum],
                                         counter |-> Nonces[keyNum],
                                         withNonce |-> withNonce,
                                         decoded |-> FALSE, decodeErr |-> ""])
    /\ UNCHANGED <<netCfg, nonceVars>>

(***************************************************************************)
(* The transaction lifecycle: RetryTxAndDecode, Decode, WaitMined and      *)
(* bumpGasOnTimeout                                                        *)
(***************************************************************************)
MaxBumpRetries == 2     \* gas_bump_retries ranges over 0..MaxBumpRetries
RetryAttempts == 10     \* retry.Attempts(10) of RetryTxAndDecode
RetryDelay == 1         \* retry.Delay(1 s) with retry.FixedDelay, in seconds
LegacyTxType == 0       \* types.LegacyTxType
DynamicFeeTxType == 2   \* types.DynamicFeeTxType
InitialFee == 1         \* the fee of the transaction as first signed
TxNonce == 1            \* its nonce

TxTypes == {LegacyTxType, 1, DynamicFeeTxType, 3}

ErrRetryTimeout == "retry timeout"
ErrConnectionRefused == "connection refused"
ErrRejected == "transaction rejected"
ErrDialRefused == "dial tcp 127.0.0.1:8545: connect: connection refused"
SubmitErrors == {ErrConnectionRefused, ErrDialRefused, ErrRejected}
ErrDecodingPrefix == "error decoding transaction: "
ErrSenderNotFound == "sender address not found in loaded private keys"
ErrUnsupportedTxType == "unsupported tx type"

PubkeyToAddress(key) == IF key = "K0" THEN "A0" ELSE "A1"
Senders == {"A0", "A1", "AX"}

Strategies == {"noop", "add1", "mul2"}

\* client.GasBumpStrategyFn(fee); "noop" is NoOpGasBumpStrategyFn.
GasBumpStrategyFnAlwaysRaises(strategy, fee) == fee + 1
GasBumpStrategyFn(strategy, fee) ==
    IF strategy = "add1" THEN fee + 1
    ELSE IF strategy = "mul2" THEN fee * 2
    ELSE fee

NoTx == [type |-> -1, nonce |-> NoValue, from |-> "", to |-> "", value |-> "", data |-> "",
         gas |-> 0, gasPrice |-> NilFee, gasFeeCap |-> NilFee, gasTipCap |-> NilFee,
         accessList |-> ""]

\* The transactions a caller may hand to the lifecycle.
InitialTxs ==
    { t \in { [type |-> ty, nonce |-> TxNonce, from |-> s, to |-> "T", value |-> "V",
               data |-> "D", gas |-> CfgGasLimit,
               gasPrice |-> IF ty \in {LegacyTxType, 1} THEN InitialFee ELSE NilFee,
               gasFeeCap |-> IF ty \in {DynamicFeeTxType, 3} THEN InitialFee ELSE NilFee,
               gasTipCap |-> IF ty \in {DynamicFeeTxType, 3} THEN InitialFee ELSE NilFee,
               accessList |-> al]
              : ty \in TxTypes, s \in Senders, al \in {"", "AL"} }
      : t.type = LegacyTxType => t.accessList = "" }

NoBump == [called |-> FALSE, byHash |-> "", before |-> NoTx, err |-> "none",
           signed |-> NoTx, sendTried |-> FALSE, calls |-> 0, result |-> NoTx]

LifeStart(entry, retries, strategy) ==
    [entry |-> entry, retries |-> retries, strategy |-> strategy, pc |-> "submit",
     attempts |-> 0, bumps |-> 0, strategyCalls |-> 0, err |-> "none", cause |-> "none",
     receipt |-> NoTx, orig |-> NoTx, waited |-> 0, retriedOn |-> {},
     sendErr |-> "none"]

InitLifeVars ==
    /\ life \in { LifeStart(e, r, s) : e \in {"Decode", "RetryTxAndDecode"},
                                       r \in 0..MaxBumpRetries, s \in Strategies }
    /\ tx \in InitialTxs
    /\ node = [accepted |-> {}, included |-> NoTx, inWait |-> FALSE, watched |-> NoTx]
    /\ signedTxs = {}
    /\ lastBump = NoBump

IdleLifeVars ==
    /\ life = [LifeStart("Decode", 0, "noop") EXCEPT !.pc = "done"]
    /\ tx = NoTx
    /\ node = [accepted |-> {}, included |-> NoTx, inWait |-> FALSE, watched |-> NoTx]
    /\ signedTxs = {}
    /\ lastBump = NoBump

\* What RetryTxAndDecode returns when m.Decode(tx, nil) fails with decodeErr.
RetryTxAndDecodeErrAsTimeout(decodeErr) == ErrRetryTimeout
RetryTxAndDecodeErr(decodeErr) == ErrDecodingPrefix \o decodeErr

\* The error the entry point returns for an error err of Decode.
LifecycleErr(entry, err) ==
    IF entry = "RetryTxAndDecode" THEN RetryTxAndDecodeErr(err) ELSE err

\* f(), the submit function, succeeded: the node holds the transaction and
\* Decode starts waiting for it.
SubmitOK ==
    /\ life.pc = "submit"
    /\ life' = [life EXCEPT !.pc = "wait", !.attempts = @ + 1, !.orig = tx]
    /\ node' = [node EXCEPT !.accepted = {tx}]
    /\ UNCHANGED <<tx, signedTxs, lastBump>>

\* strings.Contains(err.Error(), ErrRPCConnectionRefused)
ContainsConnectionRefused(err) == err \in {ErrConnectionRefused, ErrDialRefused}

\* retry.RetryIf of RetryTxAndDecode.
RetryIfAnyError(err) == TRUE
RetryIf(err) == ContainsConnectionRefused(err)

\* f() failed under RetryTxAndDecode with an error that RetryIf accepts: f is
\* called again after RetryDelay, at most RetryAttempts calls in all; there is
\* no delay after the last call.
SubmitRefused ==
    /\ life.pc = "submit"
    /\ life.entry = "RetryTxAndDecode"
    /\ \E e \in SubmitErrors :
          /\ RetryIf(e)
          /\ life' = IF life.attempts + 1 < RetryAttempts
                     THEN [life EXCEPT !.attempts = @ + 1, !.waited = @ + RetryDelay,
                                       !.retriedOn = @ \cup {e}]
                     ELSE [life EXCEPT !.attempts = @ + 1, !.pc = "done",
                                       !.cause = "submit", !.sendErr = e,
                                       !.err = ErrRetryTimeout]
    /\ UNCHANGED <<tx, node, signedTxs, lastBump>>

\* f() failed with an error that is not retried (RetryTxAndDecode), or the caller
\* passed the error of the send to Decode, which returns it as it is.
SubmitFailed(e) ==
    /\ life.pc = "submit"
    /\ life.entry = "RetryTxAndDecode" => ~RetryIf(e)
    /\ life' = [life EXCEPT !.attempts = @ + 1, !.pc = "done", !.cause = "submit",
                            !.sendErr = e,
                            !.err = IF life.entry = "RetryTxAndDecode"
                                    THEN ErrRetryTimeout ELSE e]
    /\ UNCHANGED <<tx, node, signedTxs, lastBump>>

\* The node includes one of the variants it accepted; one nonce, one outcome.
Mine(v) ==
    /\ life.pc \in {"wait", "timeout"}
    /\ node.included = NoTx
    /\ v \in node.accepted
    /\ node' = [node EXCEPT !.included = v, !.inWait = (life.pc = "wait"),
                             !.watched = tx]
    /\ UNCHANGED <<life, tx, signedTxs, lastBump>>

\* WaitMined: TransactionReceipt(tx.Hash()) answered with the receipt.
WaitMinedReceipt ==
    /\ life.pc = "wait"
    /\ node.included = tx
    /\ life' = [life EXCEPT !.pc = "done", !.receipt = tx]
    /\ UNCHANGED <<tx, node, signedTxs, lastBump>>

\* WaitMined: ctx.Done() fired before a receipt was seen; it returns ctx.Err().
WaitMinedDeadline ==
    /\ life.pc = "wait"
    /\ life' = [life EXCEPT !.pc = "timeout"]
    /\ UNCHANGED <<tx, node, signedTxs, lastBump>>

\* The loop over client.Addresses: the index of the sender, -1 when it is not there.
SenderPkIdxOrRoot(sender) ==
    IF \E j \in 1..Len(Addresses) : Addresses[j] = sender
    THEN CHOOSE j \in 1..Len(Addresses) :
            Addresses[j] = sender /\ \A i \in 1..(j - 1) : Addresses[i] # sender
    ELSE 1
SenderPkIdx(sender) ==
    IF \E j \in 1..Len(Addresses) : Addresses[j] = sender
    THEN CHOOSE j \in 1..Len(Addresses) :
            Addresses[j] = sender /\ \A i \in 1..(j - 1) : Addresses[i] # sender
    ELSE -1

\* Which tx types the switch of bumpGasOnTimeout re-signs.
BumpSupportsType(type) == type \in {LegacyTxType, DynamicFeeTxType}

\* The replacement bumpGasOnTimeout builds for t and signs with PrivateKeys[idx]:
\* a types.LegacyTx or types.DynamicFeeTx literal with the fields it names.
ReplacementTx(t, idx, strategy) ==
    IF t.type = LegacyTxType
    THEN [type |-> LegacyTxType, nonce |-> t.nonce, from |-> PubkeyToAddress(PrivateKeys[idx]),
          to |-> t.to, value |-> t.value, data |-> t.data, gas |-> t.gas,
          gasPrice |-> GasBumpStrategyFn(strategy, t.gasPrice),
          gasFeeCap |-> NilFee, gasTipCap |-> NilFee, accessList |-> ""]
    ELSE [type |-> DynamicFeeTxType, nonce |-> t.nonce, from |-> PubkeyToAddress(PrivateKeys[idx]),
          to |-> t.to, value |-> t.value, data |-> t.data, gas |-> t.gas,
          gasPrice |-> NilFee,
          gasFeeCap |-> GasBumpStrategyFn(strategy, t.gasFeeCap),
          gasTipCap |-> GasBumpStrategyFn(strategy, t.gasTipCap), accessList |-> ""]

\* What bumpGasOnTimeout returns with the error of a rejected SendTransaction:
\* `return tx, err`, the transaction it was called with, not the replacement r.
RejectedSendReturnsReplacement(t, r) == r
RejectedSendReturns(t, r) == t

\* if !isPending { return tx, nil }: the transaction was confirmed before the bump.
ConfirmedBeforeBumpIgnored(byHash) == FALSE
ConfirmedBeforeBump(byHash) == byHash = "notPending"

\* bumpGasOnTimeout(client, t). byHash is the answer of TransactionByHash ("err",
\* "notPending" or "pending"), sendOK that of SendTransaction for the replacement.
\* result is the transaction returned (NoTx for nil), calls the number of
\* GasBumpStrategyFn invocations.
bumpGasOnTimeout(t, strategy, byHash, sendOK) ==
    LET idx == SenderPkIdx(t.from)
        r == ReplacementTx(t, idx, strategy)
        seen == [NoBump EXCEPT !.called = TRUE, !.byHash = byHash, !.before = t]
    IN IF byHash = "err" THEN [seen EXCEPT !.err = ErrRPC]
       ELSE IF ConfirmedBeforeBump(byHash) THEN [seen EXCEPT !.result = t]
       ELSE IF idx = -1 THEN [seen EXCEPT !.err = ErrSenderNotFound]
       ELSE IF ~BumpSupportsType(t.type) THEN [seen EXCEPT !.err = ErrUnsupportedTxType]
       ELSE IF sendOK
            THEN [seen EXCEPT !.signed = r, !.sendTried = TRUE, !.result = r,
                              !.calls = IF t.type = LegacyTxType THEN 1 ELSE 2]
            ELSE [seen EXCEPT !.signed = r, !.sendTried = TRUE,
                              !.result = RejectedSendReturns(t, r),
                              !.err = ErrRejected,
                              !.calls = IF t.type = LegacyTxType THEN 1 ELSE 2]

\* The fee a node compares when a transaction replaces a pending one.
FeeOf(t) == IF t.gasPrice # NilFee THEN t.gasPrice ELSE t.gasFeeCap

\* The answers the node can give for the watched transaction t.
ByHashAnswers(t) ==
    {"err"} \cup (IF node.included = t THEN {"notPending"} ELSE {})
            \cup (IF node.included = NoTx /\ t \in node.accepted THEN {"pending"} ELSE {})

\* Whether a bump is still permitted after `bumps` bumps.
MayBumpOnceMore(bumps, retries) == bumps <= retries
MayBump(bumps, retries) == bumps < retries

\* The deadline passed and a bump is permitted: bumpGasOnTimeout runs, the
\* transaction it returns without error is watched from now on (the previous one
\* is kept on an error), and the per-attempt deadline restarts.
BumpOnTimeout(byHash, sendOK) ==
    /\ life.pc = "timeout"
    /\ MayBump(life.bumps, life.retries)
    /\ byHash \in ByHashAnswers(tx)
    /\ LET b == bumpGasOnTimeout(tx, life.strategy, byHash, sendOK)
       IN /\ sendOK => /\ b.signed # NoTx
                       /\ node.included = NoTx
                       /\ b.signed \notin node.accepted
                       /\ FeeOf(b.signed) > FeeOf(tx)
          /\ lastBump' = b
          /\ tx' = IF b.err = "none" THEN b.result ELSE tx
          /\ signedTxs' = IF b.signed # NoTx THEN signedTxs \cup {b.signed} ELSE signedTxs
          /\ node' = IF b.signed # NoTx /\ sendOK
                     THEN [node EXCEPT !.accepted = @ \cup {b.signed}]
                     ELSE node
          /\ life' = [life EXCEPT !.pc = "wait", !.bumps = @ + 1,
                                  !.strategyCalls = @ + b.calls]

\* The deadline passed and no bump is left: Decode returns the error of WaitMined.
LifecycleTimeout ==
    /\ life.pc = "timeout"
    /\ ~MayBump(life.bumps, life.retries)
    /\ life' = [life EXCEPT !.pc = "done", !.cause = "inclusion",
                            !.err = LifecycleErr(life.entry, ErrDeadlineExceeded)]
    /\ UNCHANGED <<tx, node, signedTxs, lastBump>>

(***************************************************************************)
(* LFUBlockCache                                                           *)
(***************************************************************************)
MaxCapacity == 3   \* the capacity given to NewLFUBlockCache ranges over 0..MaxCapacity
MaxBlock == 3      \* block numbers range over 0..MaxBlock
MaxFreq == 3       \* frequencies are followed up to MaxFreq

Blocks == 0..MaxBlock
EmptyCache == [b \in {} |-> 0]
NoSet == [called |-> FALSE, bn |-> 0, before |-> EmptyCache]

NumCallers == 2    \* goroutines calling Get and Set concurrently
Callers == 1..NumCallers
CallerIdle == [pc |-> "idle", op |-> "", bn |-> 0, seen |-> 0]

\* NewLFUBlockCache(capacity)
InitCacheVars ==
    /\ capacity \in 0..MaxCapacity
    /\ cache = EmptyCache
    /\ lastSet = NoSet
    /\ mu = 0
    /\ callers = [g \in Callers |-> CallerIdle]
    /\ hits = EmptyCache
    /\ items = EmptyCache

IdleCacheVars ==
    /\ capacity = 0
    /\ cache = EmptyCache
    /\ lastSet = NoSet
    /\ mu = 0
    /\ callers = [g \in Callers |-> CallerIdle]
    /\ hits = EmptyCache
    /\ items = EmptyCache

\* The orders in which `for key, item := range c.cache` may visit the entries.
RangeOrders(c) ==
    { o \in [1..Cardinality(DOMAIN c) -> DOMAIN c] :
        \A i, j \in 1..Cardinality(DOMAIN c) : i # j => o[i] # o[j] }

LeastFreqInit == MaxFreq + 1     \* int(^uint(0) >> 1): above every frequency
OldestInit == MaxBlock + 1       \* ^uint64(0): above every block number

\* One iteration of the loop of evict, for the entry key with frequency freq;
\* st holds leastFreq, evictKey and oldestBlockNumber.
EvictStep(st, key, freq) ==
    IF freq < st.leastFreq
    THEN [leastFreq |-> freq, evictKey |-> key, oldest |-> key]
    ELSE IF freq = st.leastFreq /\ key < st.oldest
         THEN [st EXCEPT !.evictKey = key, !.oldest = key]
         ELSE st

\* The loop of evict over the entries in order o, from position i on.
RECURSIVE EvictScan(_, _, _, _)
EvictScan(c, o, i, st) ==
    IF i > Len(o) THEN st
    ELSE EvictScan(c, o, i + 1, EvictStep(st, o[i], c[o[i]]))

\* evict(): the cache without the key the loop chose (delete of an absent key does nothing).
evict(c, o) ==
    LET st == EvictScan(c, o, 1, [leastFreq |-> LeastFreqInit, evictKey |-> 0,
                                  oldest |-> OldestInit])
    IN [b \in (DOMAIN c) \ {st.evictKey} |-> c[b]]

\* The hit count after one more hit of bn, if it is cached.
HitsAfter(h, bn) == IF bn \in DOMAIN h THEN [h EXCEPT ![bn] = @ + 1] ELSE h

\* Get(blockNumber), the whole call: a hit adds one to the frequency.
Get(bn) ==
    /\ bn \in DOMAIN cache => cache[bn] < MaxFreq
    /\ cache' = IF bn \in DOMAIN cache THEN [cache EXCEPT ![bn] = @ + 1] ELSE cache
    /\ hits' = HitsAfter(hits, bn)
    /\ UNCHANGED <<capacity, lastSet, mu, callers, items>>

\* Set(nil) returns an error.
SetNil ==
    /\ UNCHANGED <<capacity, cache, lastSet, mu, callers, hits, items>>

\* Whether Set has to make room before inserting a new entry.
CacheFull(len, cap) == len >= cap

\* The cache Set(block) leaves for a block with number bn, when evict ranges
\* over the map in order o.
SetResult(c, cap, bn, o) ==
    LET room == IF CacheFull(Cardinality(DOMAIN c), cap) THEN evict(c, o) ELSE c
    IN IF bn \in DOMAIN c
       THEN [c EXCEPT ![bn] = @ + 1]
       ELSE [b \in (DOMAIN room) \cup {bn} |-> IF b = bn THEN 1 ELSE room[b]]

\* The hit counts after Set(block) turned the cache into c2.
HitsAfterSet(h, c2, bn) ==
    [b \in DOMAIN c2 |-> IF b = bn THEN (IF bn \in DOMAIN h THEN h[bn] + 1 ELSE 1)
                         ELSE IF b \in DOMAIN h THEN h[b] ELSE c2[b]]

\* The header objects Set is called with; the header of one block can be
\* fetched more than once, each fetch giving an object of its own.
Headers == {1, 2}

\* The block of the item Set leaves for a number that is cached already:
\* c.cache[n] = &cacheItem{block: block, frequency: oldBlock.frequency + 1}
UpdatedBlockKept(old, new) == old
UpdatedBlock(old, new) == new

\* The items after Set(block) turned the cache into c2, block being the
\* object obj with number bn.
ItemsAfterSet(it, c2, bn, obj) ==
    [b \in DOMAIN c2 |->
        IF b # bn THEN it[b]
        ELSE IF bn \in DOMAIN it
             THEN [block |-> UpdatedBlock(it[bn].block, obj), first |-> it[bn].first,
                   last |-> obj]
             ELSE [block |-> obj, first |-> obj, last |-> obj]]

\* Set(block), the whole call, for the object obj with number bn.
SetBlock(bn, obj) ==
    /\ bn \in DOMAIN cache => cache[bn] < MaxFreq
    /\ \E o \in RangeOrders(cache) :
         /\ cache' = SetResult(cache, capacity, bn, o)
         /\ hits' = HitsAfterSet(hits, SetResult(cache, capacity, bn, o), bn)
         /\ items' = ItemsAfterSet(items, SetResult(cache, capacity, bn, o), bn, obj)
    /\ lastSet' = [called |-> TRUE, bn |-> bn, before |-> cache]
    /\ UNCHANGED <<capacity, mu, callers>>

\* Set(block) where each block number has one header object.
Set(bn) == SetBlock(bn, 1)

\* Get(blockNumber): the block it returns for a cached number.
GetReturns(bn) == items[bn].block

(***************************************************************************)
(* LFUBlockCache called from several goroutines: each call locks c.mu,     *)
(* runs its body and unlocks. `item.frequency++` of Get is a read and a    *)
(* write of the item.                                                      *)
(***************************************************************************)
HotBlocks == {0, 1}      \* the block numbers the goroutines ask for

\* A goroutine calls Get(bn) or Set(block bn) and reaches c.mu.Lock().
CacheCall(g, op, bn) ==
    /\ callers[g].pc = "idle"
    /\ callers' = [callers EXCEPT ![g] = [pc |-> "lock", op |-> op, bn |-> bn, seen |-> 0]]
    /\ UNCHANGED <<capacity, cache, lastSet, mu, hits, items>>

\* Whether c.mu.Lock() can return for a mutex in state m.
MutexAlwaysFree(m) == TRUE
MutexFree(m) == m = 0

\* c.mu.Lock()
CacheLock(g) ==
    /\ callers[g].pc = "lock"
    /\ MutexFree(mu)
    /\ mu' = g
    /\ callers' = [callers EXCEPT ![g].pc = "body"]
    /\ UNCHANGED <<capacity, cache, lastSet, hits, items>>

\* Get: item, found := c.cache[blockNumber], and the read of item.frequency.
GetLookup(g) ==
    /\ callers[g].pc = "body"
    /\ callers[g].op = "Get"
    /\ LET bn == callers[g].bn
       IN /\ bn \in DOMAIN cache => cache[bn] < MaxFreq
          /\ callers' = [callers EXCEPT ![g] =
                           IF bn \in DOMAIN cache
                           THEN [@ EXCEPT !.pc = "incr", !.seen = cache[bn]]
                           ELSE [@ EXCEPT !.pc = "unlock"]]
    /\ UNCHANGED <<capacity, cache, lastSet, mu, hits, items>>

\* Get: the write of item.frequency; the item may have left the map meanwhile.
GetIncrement(g) ==
    /\ callers[g].pc = "incr"
    /\ LET bn == callers[g].bn
       IN /\ cache' = IF bn \in DOMAIN cache
                      THEN [cache EXCEPT ![bn] = callers[g].seen + 1] ELSE cache
          /\ hits' = HitsAfter(hits, bn)
    /\ callers' = [callers EXCEPT ![g].pc = "unlock"]
    /\ UNCHANGED <<capacity, lastSet, mu, items>>

\* Set: the body between Lock and Unlock.
SetBody(g) ==
    /\ callers[g].pc = "body"
    /\ callers[g].op = "Set"
    /\ LET bn == callers[g].bn
       IN /\ bn \in DOMAIN cache => cache[bn] < MaxFreq
          /\ \E o \in RangeOrders(cache) :
                /\ cache' = SetResult(cache, capacity, bn, o)
                /\ hits' = HitsAfterSet(hits, SetResult(cache, capacity, bn, o), bn)
                /\ items' = ItemsAfterSet(items, SetResult(cache, capacity, bn, o), bn, 1)
          /\ lastSet' = [called |-> TRUE, bn |-> bn, before |-> cache]
    /\ callers' = [callers EXCEPT ![g].pc = "unlock"]
    /\ UNCHANGED <<capacity, mu>>

\* defer c.mu.Unlock(), and the call returns.
CacheUnlock(g) ==
    /\ callers[g].pc = "unlock"
    /\ mu' = 0
    /\ callers' = [callers EXCEPT ![g] = CallerIdle]
    /\ UNCHANGED <<capacity, cache, lastSet, hits, items>>

(***************************************************************************)
(* Gas oracle (gas_adjuster.go). Floats are carried as integers: the       *)
(* congestion metric in hundredths, the adjustment factor in tenths, the   *)
(* buffer in percent; a conversion to big.Int truncates.                   *)
(***************************************************************************)
MaxSuggested == 3        \* largest fee or tip hint of the node
MaxGasLimit == 2         \* largest Cfg.Network.GasLimit
MaxTxCostWei == 4        \* largest Cfg.Network.GasEstimationMaxTxCostWei
EstimationBlocks == 5    \* Cfg.Network.GasEstimationBlocks
DefaultGasPrice == 9     \* Cfg.Network.GasPrice
DefaultGasFeeCap == 8    \* Cfg.Network.GasFeeCap
DefaultGasTipCap == 7    \* Cfg.Network.GasTipCap

Priorities == {"ultra", "fast", "standard", "slow", "unknown"}
Metrics == {0, 50, 100}
ErrUnknownPriority == "Unknown priority"
ErrNotEnoughHeaders == "Failed to fetch enough block headers for congestion calculation"

\* What the node answers during one estimation. `fetched` header goroutines
\* succeed; `counted` is len(headers) when the caller reads it: the last
\* block plus the headers the collecting goroutine has appended by then,
\* which nothing makes it finish before the read.
NodeAnswers ==
    { a \in [hintOK : BOOLEAN, hint : 0..MaxSuggested, historyOK : BOOLEAN,
             baseFee : {0, MaxSuggested}, histTip : {0, MaxSuggested},
             lastOK : BOOLEAN,
             fetched : 0..EstimationBlocks, counted : 1..(EstimationBlocks + 1),
             metric : Metrics] :
        a.counted <= a.fetched + 1 }

NoEstimate == [pc |-> "idle", kind |-> "", priority |-> "", fetched |-> 0, hint |-> 0,
               err |-> "", fee |-> NilFee, tip |-> NilFee,
               usedFee |-> NilFee, usedTip |-> NilFee]

InitGasVars ==
    /\ gasCfg \in [GasLimit : 0..MaxGasLimit, MaxTxCost : 0..MaxTxCostWei]
    /\ est = NoEstimate

IdleGasVars ==
    /\ gasCfg = [GasLimit |-> 0, MaxTxCost |-> 0]
    /\ est = NoEstimate

getAdjustmentFactor(priority) ==
    CASE priority = "ultra"    -> [err |-> "", factor |-> 15]
      [] priority = "fast"     -> [err |-> "", factor |-> 12]
      [] priority = "standard" -> [err |-> "", factor |-> 10]
      [] priority = "slow"     -> [err |-> "", factor |-> 8]
      [] OTHER                 -> [err |-> ErrUnknownPriority, factor |-> 0]

classifyCongestion(metric) ==
    IF metric < 33 THEN "low"
    ELSE IF metric <= 66 THEN "medium"
    ELSE IF metric <= 75 THEN "high"
    ELSE "ultra"

getBufferPercent(class) ==
    CASE class = "low"    -> 5
      [] class = "medium" -> 10
      [] class = "high"   -> 15
      [] class = "ultra"  -> 20

\* minBlockCount := int(float64(blocksNumber) * 0.8)
minBlockCount(blocksNumber) == (blocksNumber * 8) \div 10

\* CalculateNetworkCongestionMetric(blocksNumber, CongestionStrategy_NewestFirst)
CalculateNetworkCongestionMetric(blocksNumber, a) ==
    IF ~a.lastOK THEN [err |-> ErrRPC, metric |-> 0]
    ELSE IF a.counted < minBlockCount(blocksNumber)
         THEN [err |-> ErrNotEnoughHeaders, metric |-> 0]
         ELSE [err |-> "", metric |-> a.metric]

\* congestionMetric * adjustmentFactor * suggested, as a big.Int
congestionAdjustment(metric, factor, suggested) == (metric * factor * suggested) \div 1000

\* amount * bufferPercent, as a big.Int
buffer(amount, percent) == (amount * percent) \div 100

\* The fee after the check against maxAllowedTxCost.
CapNever(fee, gasLimit, maxAllowedTxCost) == fee
Cap(fee, gasLimit, maxAllowedTxCost) ==
    IF fee * gasLimit > maxAllowedTxCost THEN maxAllowedTxCost \div gasLimit ELSE fee

GetSuggestedLegacyFees(cfg, priority, a) ==
    LET af == getAdjustmentFactor(priority)
        cm == CalculateNetworkCongestionMetric(EstimationBlocks, a)
        adjusted == a.hint + congestionAdjustment(cm.metric, af.factor, a.hint)
        buffered == adjusted
                      + buffer(adjusted, getBufferPercent(classifyCongestion(cm.metric)))
    IN IF ~a.hintOK THEN [err |-> ErrRPC, fee |-> NilFee, tip |-> NilFee]
       ELSE IF af.err # "" THEN [err |-> af.err, fee |-> NilFee, tip |-> NilFee]
       ELSE IF cm.err # "" THEN [err |-> cm.err, fee |-> NilFee, tip |-> NilFee]
       ELSE [err |-> "", fee |-> Cap(buffered, cfg.GasLimit, cfg.MaxTxCost), tip |-> NilFee]

\* HistoricalFeeData(priority): an unknown priority leaves both values 0
\* and returns no error.
HistoricalFeeData(priority, a) ==
    IF ~a.historyOK THEN [err |-> ErrRPC, baseFee |-> 0, tip |-> 0]
    ELSE IF priority = "unknown" THEN [err |-> "", baseFee |-> 0, tip |-> 0]
    ELSE [err |-> "", baseFee |-> a.baseFee, tip |-> a.histTip]

GetSuggestedEIP1559Fees(cfg, priority, a) ==
    LET h == HistoricalFeeData(priority, a)
        af == getAdjustmentFactor(priority)
        cm == CalculateNetworkCongestionMetric(EstimationBlocks, a)
        suggestedGasTip == Max(h.tip, a.hint)
        adj == congestionAdjustment(cm.metric, af.factor, suggestedGasTip)
        adjustedTipCap == suggestedGasTip + adj
        rawMaxFeeCap == (h.baseFee + adj) + adjustedTipCap
        maxProposedFeeCap == rawMaxFeeCap
                      + buffer(rawMaxFeeCap, getBufferPercent(classifyCongestion(cm.metric)))
        maxFeeCap == Cap(maxProposedFeeCap, cfg.GasLimit, cfg.MaxTxCost)
    IN IF ~a.hintOK THEN [err |-> ErrRPC, fee |-> NilFee, tip |-> NilFee]
       ELSE IF h.err # "" THEN [err |-> h.err, fee |-> NilFee, tip |-> NilFee]
       ELSE IF af.err # "" THEN [err |-> af.err, fee |-> NilFee, tip |-> NilFee]
       ELSE IF cm.err # "" THEN [err |-> cm.err, fee |-> NilFee, tip |-> NilFee]
       ELSE [err |-> "", fee |-> maxFeeCap,
             tip |-> IF maxProposedFeeCap * cfg.GasLimit > cfg.MaxTxCost
                     THEN (adjustedTipCap * maxFeeCap) \div rawMaxFeeCap
                     ELSE adjustedTipCap]

\* if err != nil { gasPrice = big.NewInt(c.Cfg.Network.GasPrice) }
GasPriceOrZero(res) == IF res.err # "" THEN 0 ELSE res.fee
GasPriceOrDefault(res) == IF res.err # "" THEN DefaultGasPrice ELSE res.fee

\* The fallback of the EIP-1559 estimation to gas_fee_cap and gas_tip_cap.
FeeCapOrDefault(res) == IF res.err # "" THEN DefaultGasFeeCap ELSE res.fee
TipCapOrDefault(res) == IF res.err # "" THEN DefaultGasTipCap ELSE res.tip

\* A caller estimates the legacy gas price and falls back on an error.
EstimateLegacy ==
    /\ est.pc = "idle"
    /\ \E priority \in Priorities, a \in NodeAnswers :
         LET res == GetSuggestedLegacyFees(gasCfg, priority, a)
         IN est' = [pc |-> "done", kind |-> "legacy", priority |-> priority,
                    fetched |-> a.fetched, hint |-> a.hint,
                    err |-> res.err, fee |-> res.fee, tip |-> res.tip,
                    usedFee |-> GasPriceOrDefault(res), usedTip |-> NilFee]
    /\ UNCHANGED gasCfg

\* A caller estimates the EIP-1559 fees and falls back on an error.
EstimateEIP1559 ==
    /\ est.pc = "idle"
    /\ \E priority \in Priorities, a \in NodeAnswers :
         LET res == GetSuggestedEIP1559Fees(gasCfg, priority, a)
         IN est' = [pc |-> "done", kind |-> "eip1559", priority |-> priority,
                    fetched |-> a.fetched, hint |-> a.hint,
                    err |-> res.err, fee |-> res.fee, tip |-> res.tip,
                    usedFee |-> FeeCapOrDefault(res), usedTip |-> TipCapOrDefault(res)]
    /\ UNCHANGED gasCfg

\* The legacy estimation again, with amounts large enough for the adjustment
\* factor and the buffer percentage to show, every header fetched, and
\* limits that the cap reaches for some prices only.
MaxWeiHint == 1000       \* largest gas price hint of the node, in wei

WeiHints == {0, 40, 100, MaxWeiHint}
WeiConfigs == [GasLimit : {1, 2}, MaxTxCost : {100, 2 * MaxWeiHint}]
WeiAnswers ==
    { [hintOK |-> TRUE, hint |-> h, historyOK |-> TRUE, baseFee |-> 0, histTip |-> 0,
       lastOK |-> TRUE, fetched |-> EstimationBlocks, counted |-> EstimationBlocks + 1,
       metric |-> m] : h \in WeiHints, m \in Metrics }

InitWeiVars ==
    /\ gasCfg \in WeiConfigs
    /\ est = NoEstimate

EstimateLegacyWei ==
    /\ est.pc = "idle"
    /\ \E priority \in Priorities, a \in WeiAnswers :
         LET res == GetSuggestedLegacyFees(gasCfg, priority, a)
         IN est' = [pc |-> "done", kind |-> "legacy", priority |-> priority,
                    fetched |-> a.fetched, hint |-> a.hint, metric |-> a.metric,
                    err |-> res.err, fee |-> res.fee, tip |-> res.tip,
                    usedFee |-> GasPriceOrDefault(res), usedTip |-> NilFee]
    /\ UNCHANGED gasCfg

(***************************************************************************)
(* Decode (client.go) and the Tracer (TraceGethTX, DecodeTrace,            *)
(* decodeCall). A trace is the sequence of its call frames, the main call  *)
(* first; a frame is named by what the ABI finder and the input decoder    *)
(* make of it.                                                             *)
(***************************************************************************)
MaxFrames == 3          \* largest number of call frames in a trace

TxHash == "0xtx"
ErrClientErrors == "client errors"
ErrTxFailed == "transaction error"
ErrWaitMined == "wait mined error"
ErrRevertReason == "error type: CustomErr, error values: [12 21]"
ErrNoABIMethod == "no ABI method found"
ErrDecodeInput == "failed to decode transaction input"
ErrInvalidMethodSignature == "no method signature found or it's not 4 bytes long"
ErrTraceRPC == "debug_traceTransaction failed"
CommentMissingABI == "Call not decoded due to missing ABI instance"
FAILED_TO_DECODE == "failed to decode"

TracingLevels == {"all", "reverted", "none"}
FrameKinds == {"ok", "noABI", "badInput", "short"}
Traces == UNION { [1..n -> FrameKinds] : n \in 1..MaxFrames }
DecodeErrors == {"", ErrNoABIMethod, ErrDecodeInput}

\* The client flags a tracing level stands for.
TracingEnabled(level) == level = "all"
TraceReverted(level) == level \in {"all", "reverted"}

\* What Decode is called with and what the node and the ABIs make of it.
DecodeInputs ==
    [pre : {"ok", "errors", "txErr", "nilTx"}, mined : BOOLEAN, status : {0, 1},
     decodeErr : DecodeErrors, traceRPC : BOOLEAN, frames : Traces]

NoDecode == [pc |-> "idle", pre |-> "ok", mined |-> FALSE, status |-> 1, decodeErr |-> "",
             traceRPC |-> FALSE, frames |-> <<>>, ret |-> "", err |-> "", at |-> ""]
NoCalls == [h \in {} |-> <<>>]

NumTracers == 2      \* goroutines calling Decode with tracing, each for its own transaction
Tracers == 1..NumTracers
TracerIdle == [pc |-> "idle", calls |-> <<>>]
NoTracers == [g \in Tracers |-> TracerIdle]

InitDecodeVars ==
    /\ tracing \in TracingLevels
    /\ dec = NoDecode
    /\ DecodedCalls = NoCalls
    /\ tracers = NoTracers

IdleDecodeVars ==
    /\ tracing = "none"
    /\ dec = NoDecode
    /\ DecodedCalls = NoCalls
    /\ tracers = NoTracers

\* decodeCall for one frame: a missing ABI gives the default call with a
\* comment and no error.
decodeCallStrict(kind) ==
    CASE kind = "ok" -> [method |-> "decoded", comment |-> "", err |-> ""]
      [] kind = "noABI" -> [method |-> "", comment |-> CommentMissingABI, err |-> ErrNoABIMethod]
      [] OTHER -> [method |-> "", comment |-> "", err |-> ErrDecodeInput]
decodeCall(kind) ==
    CASE kind = "ok" -> [method |-> "decoded", comment |-> "", err |-> ""]
      [] kind = "noABI" -> [method |-> "", comment |-> CommentMissingABI, err |-> ""]
      [] OTHER -> [method |-> "", comment |-> "", err |-> ErrDecodeInput]

\* A sub call that decodeCall fails on is kept as a placeholder.
decodeSubCall(kind) ==
    IF decodeCall(kind).err # ""
    THEN [method |-> FAILED_TO_DECODE, comment |-> "", err |-> ""]
    ELSE decodeCall(kind)

\* The traces of debug_traceTransaction as the tracer reads them. The call
\* trace is the main call and the calls directly below it (TXCallTraceOutput
\* keeps no deeper level); a frame is read here by its selector and the size
\* of its arguments. The 4byteTracer counts every call of the transaction,
\* the deeper ones included, under the key selector-size.
WrnMissingCallTrace == "This call was missing from call trace, but it's signature was present in 4bytes trace. Most data is missing; Call order remains unknown"
NO_DATA == "no data"
Selectors == {"0xaaaaaaaa", "0xbbbbbbbb"}
CallSizes == {0, 32}
FourByteKeys == Selectors \X CallSizes
FlatFrames == UNION { [1..n -> [sel : Selectors, size : CallSizes]] : n \in 1..MaxFrames }
NestedCalls == [FourByteKeys -> 0..1]

\* The answer of the 4byteTracer for a transaction with these frames and
\* these deeper calls; a key whose count is 0 is not in the answer.
RawFourByte(frames, nested) ==
    [k \in FourByteKeys |->
        Cardinality({ i \in 1..Len(frames) : <<frames[i].sel, frames[i].size>> = k })
          + nested[k]]

\* trace4Byte: out[d[0]] = {Times: v, CallSize: size} for each key of the
\* answer; of two keys with one selector the one ranged over last stays, and
\* the order of a range over a map is not fixed: last[s] is that key's size.
FourByteLast(raw) ==
    { last \in [Selectors -> CallSizes] :
        \A sel \in Selectors :
            (\E z \in CallSizes : raw[<<sel, z>>] > 0) => raw[<<sel, last[sel]>>] > 0 }
trace4Byte(raw, last) ==
    [sel \in { x \in Selectors : \E z \in CallSizes : raw[<<x, z>>] > 0 } |->
        [Times |-> raw[<<sel, last[sel]>>], CallSize |-> last[sel]]]

RECURSIVE SumTimes(_, _)
SumTimes(fourByte, keys) ==
    IF keys = {} THEN 0
    ELSE LET k == CHOOSE x \in keys : TRUE
         IN fourByte[k].Times + SumTimes(fourByte, keys \ {k})

\* The selectors of the 4byte trace that no frame of the call trace has.
missingSignatures(frames, fourByte) ==
    { k \in DOMAIN fourByte : \A i \in 1..Len(frames) : frames[i].sel # k }

\* The orders in which a range over the 4byte map can meet the missing selectors.
MissingOrders(missing) ==
    { q \in [1..Cardinality(missing) -> missing] :
        \A i, j \in 1..Cardinality(missing) : q[i] = q[j] => i = j }

unknownCall == [method |-> NO_DATA, comment |-> "", err |-> ""]
missedCall(sig, method) ==
    [method |-> method, comment |-> WrnMissingCallTrace, err |-> "", signature |-> sig]

\* The search for missing selectors is entered when the number of calls the
\* 4byte trace counts differs from the number of frames.
countsDiffer(expected, frames) == expected - Len(frames) # 0

\* checkForMissingCalls: the calls it returns. found is the answer of
\* FindABIByMethod(UNKNOWN, selector); when it is an error, unknownCall is
\* appended and the function goes on with the zero ABIFinderResult.
RECURSIVE missedCalls(_, _)
missedCalls(order, found) ==
    IF order = <<>> THEN <<>>
    ELSE (IF found THEN <<missedCall(Head(order), "decoded")>>
          ELSE <<unknownCall, missedCall(Head(order), "")>>)
         \o missedCalls(Tail(order), found)
checkForMissingCalls(frames, fourByte, order, found) ==
    IF countsDiffer(SumTimes(fourByte, DOMAIN fourByte), frames)
    THEN missedCalls(order, found)
    ELSE <<>>

\* A 4byte trace that agrees with a call trace of n frames.
AgreeingFrames(n) == [i \in 1..n |-> [sel |-> "0xaaaaaaaa", size |-> 0]]
AgreeingFourByte(n) == [sel \in {"0xaaaaaaaa"} |-> [Times |-> n, CallSize |-> 0]]

\* DecodeTrace: the error, and the calls stored under the hash if there is
\* none; the 4byte trace agrees with the call trace.
DecodeTrace(frames) ==
    IF \E i \in 1..Len(frames) : frames[i] = "short"
    THEN [err |-> ErrInvalidMethodSignature, calls |-> <<>>]
    ELSE IF decodeCall(frames[1]).err # ""
    THEN [err |-> decodeCall(frames[1]).err, calls |-> <<>>]
    ELSE [err |-> "",
          calls |-> [i \in 1..Len(frames) |->
                        IF i = 1 THEN decodeCall(frames[1]) ELSE decodeSubCall(frames[i])]
                    \o checkForMissingCalls(AgreeingFrames(Len(frames)),
                                            AgreeingFourByte(Len(frames)), <<>>, TRUE)]

\* TraceGethTX(txHash): the error and Tracer.DecodedCalls afterwards.
TraceGethTX(rpcOK, frames, calls) ==
    IF ~rpcOK THEN [err |-> ErrTraceRPC, calls |-> calls]
    ELSE IF DecodeTrace(frames).err # ""
    THEN [err |-> DecodeTrace(frames).err, calls |-> calls]
    ELSE [err |-> "",
          calls |-> [h \in (DOMAIN calls) \cup {TxHash} |->
                        IF h = TxHash THEN DecodeTrace(frames).calls ELSE calls[h]]]

\* if receipt.Status == 0
receiptRevertedNever(status) == FALSE
receiptReverted(status) == status = 0

\* callAndGetRevertReason: traces the reverted transaction when reverted
\* transactions are traced, and returns the revert reason as an error.
callAndGetRevertReason(level, in, calls) ==
    [err |-> ErrRevertReason,
     calls |-> IF TraceReverted(level)
               THEN TraceGethTX(in.traceRPC, in.frames, calls).calls ELSE calls]

\* Whether a decodeTransaction error ends Decode.
decodeErrIsFatalAlways(enabled, decodeErr) == decodeErr # ""
decodeErrIsFatal(enabled, decodeErr) == ~enabled /\ decodeErr = ErrNoABIMethod

\* if m.Cfg.TracingEnabled { traceErr := m.Tracer.TraceGethTX(decoded.Hash) ... }
tracingStepAlways(enabled, in, calls) == TraceGethTX(in.traceRPC, in.frames, calls)
tracingStep(enabled, in, calls) ==
    IF enabled THEN TraceGethTX(in.traceRPC, in.frames, calls)
    ELSE [err |-> "", calls |-> calls]

\* Decode(tx, txErr): what it returns, the statement it returns from and
\* Tracer.DecodedCalls afterwards.
DecodeResult(level, in, calls) ==
    LET rr == callAndGetRevertReason(level, in, calls)
        ts == tracingStep(TracingEnabled(level), in, calls)
    IN IF in.pre = "errors"
       THEN [ret |-> "nil", err |-> ErrClientErrors, at |-> "errors", calls |-> calls]
       ELSE IF in.pre = "txErr"
       THEN [ret |-> "nil", err |-> ErrTxFailed, at |-> "txErr", calls |-> calls]
       ELSE IF in.pre = "nilTx"
       THEN [ret |-> "nil", err |-> "", at |-> "nilTx", calls |-> calls]
       ELSE IF ~in.mined
       THEN [ret |-> "empty", err |-> ErrWaitMined, at |-> "WaitMined", calls |-> calls]
       ELSE IF receiptReverted(in.status)
       THEN [ret |-> "empty", err |-> rr.err, at |-> "revert", calls |-> rr.calls]
       ELSE IF in.decodeErr # "" /\ decodeErrIsFatal(TracingEnabled(level), in.decodeErr)
       THEN [ret |-> "nil", err |-> in.decodeErr, at |-> "decode", calls |-> calls]
       ELSE IF ts.err # ""
       THEN [ret |-> "nil", err |-> ts.err, at |-> "trace", calls |-> ts.calls]
       ELSE [ret |-> "decoded", err |-> "", at |-> "end", calls |-> ts.calls]

Decode ==
    /\ dec.pc = "idle"
    /\ \E in \in DecodeInputs :
         LET r == DecodeResult(tracing, in, DecodedCalls)
         IN /\ dec' = [pc |-> "done", pre |-> in.pre, mined |-> in.mined,
                       status |-> in.status, decodeErr |-> in.decodeErr,
                       traceRPC |-> in.traceRPC, frames |-> in.frames,
                       ret |-> r.ret, err |-> r.err, at |-> r.at]
            /\ DecodedCalls' = r.calls
    /\ UNCHANGED <<tracing, tracers>>

\* Decode(tx, txErr) for the transaction built with the i-th options of the
\* client: mined, successful and decodable, so that the only error it can
\* return is that of the check of Client.Errors.
BuiltTx(errors) ==
    [pre |-> IF Len(errors) > 0 THEN "errors" ELSE "ok", mined |-> TRUE, status |-> 1,
     decodeErr |-> "", traceRPC |-> TRUE, frames |-> <<"ok">>]

DecodeBuilt(i) ==
    /\ i \in 1..Len(optsLog)
    /\ ~optsLog[i].decoded
    /\ optsLog' = [optsLog EXCEPT ![i].decoded = TRUE,
                      ![i].decodeErr = DecodeResult(tracing, BuiltTx(Errors), DecodedCalls).err]
    /\ UNCHANGED <<netCfg, Errors>>

\* Decode of a mined, successful transaction with tracing enabled whose
\* frames all decode, for any 4byte trace the node can answer with:
\* TraceGethTX, trace4Byte, DecodeTrace and checkForMissingCalls.
InitReconVars ==
    /\ tracing = "all"
    /\ dec = NoDecode
    /\ DecodedCalls = NoCalls
    /\ tracers = NoTracers

DecodeReconciled ==
    /\ dec.pc = "idle"
    /\ TracingEnabled(tracing)
    /\ \E frames \in FlatFrames, nested \in NestedCalls, found \in BOOLEAN :
         \E last \in FourByteLast(RawFourByte(frames, nested)) :
           LET fourByte == trace4Byte(RawFourByte(frames, nested), last)
           IN \E order \in MissingOrders(missingSignatures(frames, fourByte)) :
                LET missed == checkForMissingCalls(frames, fourByte, order, found)
                    decoded == [i \in 1..Len(frames) |->
                                  IF i = 1 THEN decodeCall("ok") ELSE decodeSubCall("ok")]
                IN /\ dec' = [pc |-> "done", pre |-> "ok", mined |-> TRUE, status |-> 1,
                              decodeErr |-> "", traceRPC |-> TRUE,
                              frames |-> frames, nested |-> nested, fourByte |-> fourByte,
                              found |-> found,
                              ret |-> "decoded", err |-> "", at |-> "end"]
                   /\ DecodedCalls' = [h \in {TxHash} |-> decoded \o missed]
    /\ UNCHANGED <<tracing, tracers>>

(***************************************************************************)
(* Tracer.DecodedCalls written by several goroutines: each calls Decode    *)
(* with tracing for a transaction of its own, and DecodeTrace ends with    *)
(* the assignment t.DecodedCalls[trace.TxHash] = decodedCalls to a Go map  *)
(* that no lock guards. Two overlapping assignments are a data race: both  *)
(* land, or the runtime stops the process with a fatal error.              *)
(***************************************************************************)
\* The transaction hash of the goroutine's transaction.
HashOf(g) == CASE g = 1 -> TxHash [] g = 2 -> "0xtx2" [] OTHER -> "0xtx3"

\* The call traces of the transactions: every frame decodes, with or
\* without an ABI for it.
TracedFrames == UNION { [1..n -> {"ok", "noABI"}] : n \in 1..MaxFrames }

\* DecodeTrace up to the assignment: the frames are decoded.
DecodeTraceBegin(g, frames) ==
    /\ tracers[g].pc = "idle"
    /\ DecodeTrace(frames).err = ""
    /\ tracers' = [tracers EXCEPT ![g] = [pc |-> "writing",
                                          calls |-> DecodeTrace(frames).calls]]
    /\ UNCHANGED <<tracing, dec, DecodedCalls>>

\* t.DecodedCalls[trace.TxHash] = decodedCalls lands and Decode returns; an
\* assignment that overlaps another may stop the process instead.
DecodeTraceStore(g) ==
    /\ tracers[g].pc = "writing"
    /\ \/ /\ DecodedCalls' = [h \in (DOMAIN DecodedCalls) \cup {HashOf(g)} |->
                                IF h = HashOf(g) THEN tracers[g].calls ELSE DecodedCalls[h]]
          /\ tracers' = [tracers EXCEPT ![g].pc = "done"]
       \/ /\ \E h \in Tracers \ {g} : tracers[h].pc = "writing"
          /\ tracers' = [h \in Tracers |-> [tracers[h] EXCEPT !.pc = "fatal"]]
          /\ UNCHANGED DecodedCalls
    /\ UNCHANGED <<tracing, dec>>

(***************************************************************************)
(* ContractMap: a Go map from address to contract name, shared by the      *)
(* client, the ABI finder and the tracer, with no lock. A map access that  *)
(* overlaps a map assignment of another goroutine is a data race: the read *)
(* sees the map before or after the assignment, or the runtime stops the   *)
(* process with a fatal error.                                             *)
(***************************************************************************)
NumDeployers == 2     \* goroutines calling DeployContract

Deployers == 1..NumDeployers
ContractAddrs == {"0xa1", "0xb2", "0x33"}
ContractNames == {"NetworkDebugContract", "LinkToken"}
UNKNOWN == "unknown"

\* common.Address.Hex(): the checksummed spelling of an address.
Hex(a) == CASE a = "0xa1" -> "0xA1" [] a = "0xb2" -> "0xB2" [] OTHER -> a

\* strings.ToLower
ToLower(s) == CASE s = "0xA1" -> "0xa1" [] s = "0xB2" -> "0xb2" [] OTHER -> s

\* strings.TrimSuffix(name, ".abi")
TrimSuffixAbi(name) ==
    CASE name = "NetworkDebugContract.abi" -> "NetworkDebugContract"
      [] name = "LinkToken.abi" -> "LinkToken"
      [] OTHER -> name

EmptyMap == [k \in {} |-> ""]
ErrDeploySend == "failed to send the deployment transaction"
ErrNoContractCode == "no contract code after deployment"
DeployErrors == {ErrDeploySend, ErrNoContractCode}
DeployerIdle == [pc |-> "idle", addr |-> "", name |-> "", err |-> "none"]

\* LoadDeployedContracts: the entries of the contract map file, keyed by
\* Hex(); they are contracts deployed on the chain earlier.
InitMapVars ==
    /\ \E loaded \in SUBSET {"0x33", "0xb2"} :
          contractMap = [k \in { Hex(a) : a \in loaded } |-> "LinkToken"]
    /\ deployers = [g \in Deployers |-> DeployerIdle]
    /\ observed = [a \in ContractAddrs |-> {}]
    /\ fatal = FALSE

IdleMapVars ==
    /\ contractMap = EmptyMap
    /\ deployers = [g \in Deployers |-> DeployerIdle]
    /\ observed = [a \in ContractAddrs |-> {}]
    /\ fatal = FALSE

\* The addresses the chain can give to a new contract: none that a contract
\* is deployed or being deployed at.
TakenAddresses ==
    { ToLower(k) : k \in DOMAIN contractMap }
      \cup { ToLower(deployers[g].addr) : g \in Deployers }
NewAddresses == ContractAddrs \ TakenAddresses

\* DeployContract up to the deployed contract: bind.DeployContract and
\* WaitDeployed.
DeployContractDeployed(g, name) ==
    /\ ~fatal
    /\ deployers[g].pc = "idle"
    /\ \E a \in NewAddresses :
          deployers' = [deployers EXCEPT ![g] =
                          [pc |-> "deployed", addr |-> Hex(a), name |-> name,
                           err |-> "none"]]
    /\ UNCHANGED <<contractMap, observed, fatal>>

\* Whether DeployContract returns before AddContract: on the error of
\* bind.DeployContract or of the retried bind.WaitDeployed.
DeployContractGoesOn(err) == FALSE
DeployContractReturnsEarly(err) == err # "none"

\* DeployContract whose deployment fails with err: bind.DeployContract could
\* not send the transaction (no address), or the contract code never showed
\* up at the address.
DeployContractFailed(g, name, err) ==
    /\ ~fatal
    /\ deployers[g].pc = "idle"
    /\ \E a \in NewAddresses :
          deployers' = [deployers EXCEPT ![g] =
                          [pc |-> IF DeployContractReturnsEarly(err)
                                  THEN "failed" ELSE "deployed",
                           addr |-> IF err = ErrDeploySend THEN "" ELSE Hex(a),
                           name |-> name, err |-> err]]
    /\ UNCHANGED <<contractMap, observed, fatal>>

\* AddContract(addr, name), c[strings.ToLower(addr)] = name: the assignment begins.
AddContractBegin(g) ==
    /\ ~fatal
    /\ deployers[g].pc = "deployed"
    /\ deployers' = [deployers EXCEPT ![g].pc = "writing"]
    /\ UNCHANGED <<contractMap, observed, fatal>>

\* Whether another goroutine is inside a map assignment.
WriteInProgress(g) == \E h \in Deployers \ {g} : deployers[h].pc = "writing"

\* The map after AddContract(addr, name).
AddContractOneKey(c, addr, name) ==
    [k \in (DOMAIN c) \cup {"0x33"} |-> IF k = "0x33" THEN TrimSuffixAbi(name) ELSE c[k]]
AddContract(c, addr, name) ==
    IF addr = UNKNOWN THEN c
    ELSE [k \in (DOMAIN c) \cup {ToLower(addr)} |->
             IF k = ToLower(addr) THEN TrimSuffixAbi(name) ELSE c[k]]

\* The assignment lands, and DeployContract returns; two overlapping
\* assignments may stop the process instead.
AddContractEnd(g) ==
    /\ ~fatal
    /\ deployers[g].pc = "writing"
    /\ \/ /\ contractMap' = AddContract(contractMap, deployers[g].addr, deployers[g].name)
          /\ deployers' = [deployers EXCEPT ![g].pc = "done"]
          /\ UNCHANGED <<observed, fatal>>
       \/ /\ WriteInProgress(g)
          /\ fatal' = TRUE
          /\ UNCHANGED <<contractMap, deployers, observed>>

\* The maps a read may see: the map itself and, while assignments are in
\* progress, the map with any of them landed.
VisibleMaps ==
    {contractMap} \cup
      { AddContract(contractMap, deployers[g].addr, deployers[g].name) :
          g \in { h \in Deployers : deployers[h].pc = "writing" } }

\* c[strings.ToLower(addr)]
GetContractNameIn(c, addr) == IF ToLower(addr) \in DOMAIN c THEN c[ToLower(addr)] ELSE ""

\* A decoder or tracer reads GetContractName(addr).
GetContractName(addr) ==
    /\ ~fatal
    /\ \/ \E c \in VisibleMaps :
             /\ observed' = [observed EXCEPT ![ToLower(addr)] =
                               IF GetContractNameIn(c, addr) = "" THEN @
                               ELSE @ \cup {GetContractNameIn(c, addr)}]
             /\ UNCHANGED <<contractMap, deployers, fatal>>
       \/ /\ WriteInProgress(0)
          /\ fatal' = TRUE
          /\ UNCHANGED <<contractMap, deployers, observed>>

\* The tracer reads GetContractAddress(name): any key mapped to the name.
GetContractAddress(name) ==
    /\ ~fatal
    /\ name # UNKNOWN
    /\ \/ \E c \in VisibleMaps :
             \/ \E k \in DOMAIN c :
                   /\ c[k] = name
                   /\ observed' = [observed EXCEPT ![ToLower(k)] = @ \cup {name}]
                   /\ UNCHANGED <<contractMap, deployers, fatal>>
             \/ /\ \A k \in DOMAIN c : c[k] # name
                /\ UNCHANGED <<contractMap, deployers, observed, fatal>>
       \/ /\ WriteInProgress(0)
          /\ fatal' = TRUE
          /\ UNCHANGED <<contractMap, deployers, observed>>

(***************************************************************************)
(* Client.WaitMined: the receipt poll loop with its one-second ticker and  *)
(* the context it derives with the transaction timeout. Time is counted in *)
(* ticks of the ticker.                                                    *)
(***************************************************************************)
MaxTxnTimeout == 2      \* Cfg.Network.TxnTimeout, in ticks, ranges over 0..MaxTxnTimeout

ErrCanceled == "context canceled"
ErrNotFound == "not found"
WaitClock == MaxTxnTimeout + 1   \* the clock stops counting here; the ticker goes on

\* context.WithTimeout(ctx, TxnTimeout) over a parent that may be cancelled
\* already; the ticker has not fired yet.
WaitStart(timeout, parentDone) ==
    [pc |-> "poll", timeout |-> timeout, now |-> 0,
     ctxErr |-> IF parentDone THEN ErrCanceled
                ELSE IF timeout = 0 THEN ErrDeadlineExceeded ELSE "none",
     tick |-> FALSE, mined |-> FALSE, polls |-> 0, lastPoll |-> "none",
     observedDone |-> FALSE, pollsAfterDone |-> 0,
     receipt |-> FALSE, err |-> "none"]

InitWaitVars ==
    wm \in { WaitStart(t, d) : t \in 0..MaxTxnTimeout, d \in BOOLEAN }

IdleWaitVars == wm = [WaitStart(0, FALSE) EXCEPT !.pc = "done"]

\* ctx.Done() is closed.
CtxDone(w) == w.ctxErr # "none"

\* A second passes: the ticker puts a tick in its channel (of capacity one)
\* and the deadline of the context may be reached.
WaitTick ==
    /\ wm.pc # "done"
    /\ LET t == IF wm.now < WaitClock THEN wm.now + 1 ELSE wm.now
       IN wm' = [wm EXCEPT !.now = t, !.tick = TRUE,
                           !.ctxErr = IF @ = "none" /\ t >= wm.timeout
                                      THEN ErrDeadlineExceeded ELSE @]

\* The caller cancels the parent context.
WaitCancel ==
    /\ wm.pc # "done"
    /\ ~CtxDone(wm)
    /\ wm' = [wm EXCEPT !.ctxErr = ErrCanceled]

\* The node includes the transaction: a receipt exists from now on.
WaitMine ==
    /\ wm.pc # "done"
    /\ ~wm.mined
    /\ wm' = [wm EXCEPT !.mined = TRUE]

\* The answers of b.TransactionReceipt(ctx, tx.Hash()): the receipt when there
\* is one, ethereum.NotFound when there is none, another error of the RPC, or
\* the error of a context that is done.
ReceiptAnswers(w) ==
    (IF w.mined THEN {"receipt"} ELSE {ErrNotFound})
      \cup (IF CtxDone(w) THEN {w.ctxErr} ELSE {ErrRPC})

\* Where the loop goes after the select statement took the given case.
afterSelectAlwaysPolls(case) == "poll"
afterSelect(case) == IF case = "ctx.Done" THEN "done" ELSE "poll"

\* receipt, err := b.TransactionReceipt(...); if err == nil { return receipt, nil }
WaitPoll ==
    /\ wm.pc = "poll"
    /\ \E a \in ReceiptAnswers(wm) :
          wm' = [wm EXCEPT !.polls = IF @ < 2 THEN @ + 1 ELSE @,
                           !.lastPoll = a,
                           !.pollsAfterDone = IF wm.observedDone THEN 1 ELSE @,
                           !.pc = IF a = "receipt" THEN "done" ELSE "select",
                           !.receipt = (a = "receipt")]

\* case <-ctx.Done(): return nil, ctx.Err()
WaitSelectDone ==
    /\ wm.pc = "select"
    /\ CtxDone(wm)
    /\ wm' = [wm EXCEPT !.pc = afterSelect("ctx.Done"), !.observedDone = TRUE,
                        !.err = IF afterSelect("ctx.Done") = "done" THEN wm.ctxErr ELSE @]

\* case <-queryTicker.C: the tick is taken and the loop polls again.
WaitSelectTick ==
    /\ wm.pc = "select"
    /\ wm.tick
    /\ wm' = [wm EXCEPT !.pc = afterSelect("queryTicker.C"), !.tick = FALSE]

(***************************************************************************)
(* The header fan-out of CalculateNetworkCongestionMetric: one goroutine   *)
(* per requested block sends the header it fetched into dataCh, a          *)
(* collector goroutine appends what it receives to headers, and the caller *)
(* waits for the fetching goroutines only. A header is named by the        *)
(* distance of its block from the last block.                              *)
(***************************************************************************)
FanBlocks == 3          \* blocksNumber ranges over 1..FanBlocks
MaxChannelSize == 20    \* channelSize is blocksNumber, at most 20

LastBlock == 0          \* the header of the last block, fetched before the fan-out
FanWorkers(n) == 1..n   \* the goroutines of the loop, one per value of i

\* for i := lastBlockNumber; i > lastBlockNumber-blocksNumber; i--: the first
\* goroutine is given lastBlockNumber itself, the g-th the block g - 1 before it.
BlockOf(g) == LastBlock + (g - 1)

FanStart(n) ==
    [n |-> n, pc |-> "fanout", workers |-> [g \in FanWorkers(n) |-> "fetch"],
     dataCh |-> <<>>, headers |-> <<LastBlock>>, fetched |-> {LastBlock},
     seen |-> <<>>, result |-> "none"]

InitFanVars == fan \in { FanStart(n) : n \in 1..FanBlocks }
IdleFanVars == fan = [FanStart(1) EXCEPT !.pc = "idle"]

\* channelSize := blocksNumber; if blocksNumber > 20 { channelSize = 20 }
channelSize(n) == IF n > MaxChannelSize THEN MaxChannelSize ELSE n

\* getHeaderData(bn) of goroutine g answered with the header.
FetchHeaderOK(g) ==
    /\ fan.pc = "fanout"
    /\ g \in FanWorkers(fan.n)
    /\ fan.workers[g] = "fetch"
    /\ fan' = [fan EXCEPT !.workers[g] = "send", !.fetched = @ \cup {BlockOf(g)}]

\* getHeaderData(bn) failed: the goroutine logs the error and returns.
FetchHeaderFailed(g) ==
    /\ fan.pc = "fanout"
    /\ g \in FanWorkers(fan.n)
    /\ fan.workers[g] = "fetch"
    /\ fan' = [fan EXCEPT !.workers[g] = "done"]

\* dataCh <- header, then the deferred wg.Done().
SendHeader(g) ==
    /\ fan.pc = "fanout"
    /\ g \in FanWorkers(fan.n)
    /\ fan.workers[g] = "send"
    /\ Len(fan.dataCh) < channelSize(fan.n)
    /\ fan' = [fan EXCEPT !.workers[g] = "done", !.dataCh = Append(@, BlockOf(g))]

\* The collector: for header := range dataCh { headers = append(headers, header) }
CollectHeader ==
    /\ fan.pc # "idle"
    /\ fan.dataCh # <<>>
    /\ fan' = [fan EXCEPT !.dataCh = Tail(@), !.headers = Append(@, Head(fan.dataCh))]

\* What the caller waits for before it closes dataCh: wg.Wait() returns when
\* every fetching goroutine is done; the collector is not in the wait group.
WaitGroupDone(f) == \A g \in FanWorkers(f.n) : f.workers[g] = "done"

\* wg.Wait(); close(dataCh)
WaitAndClose ==
    /\ fan.pc = "fanout"
    /\ WaitGroupDone(fan)
    /\ fan' = [fan EXCEPT !.pc = "closed"]

\* len(headers) < minBlockCount, else the metric over headers.
EvaluateHeaders ==
    /\ fan.pc = "closed"
    /\ fan' = [fan EXCEPT !.pc = "evaluated", !.seen = fan.headers,
                          !.result = IF Len(fan.headers) < minBlockCount(fan.n)
                                     THEN ErrNotEnoughHeaders ELSE "metric"]

(***************************************************************************)
(* The fee equalizer of GetSuggestedEIP1559Fees (experiment                *)
(* eip_1559_fee_equalizer) and calculateMagnitudeDifference. Fees are wei  *)
(* amounts; no two of them are a power of ten apart, so that the floating  *)
(* point logarithms are never at an integer boundary.                      *)
(***************************************************************************)
MaxOrders == 5      \* fees are below 10^MaxOrders

FeeValues == {0, 2, 30, 700, 9000, 50000}

RECURSIVE Pow10(_)
Pow10(k) == IF k = 0 THEN 1 ELSE 10 * Pow10(k - 1)

\* math.Ceil(math.Log10(a) - math.Log10(b)) for a > b > 0: the least k with
\* a <= b * 10^k.
CeilLogRatio(a, b) ==
    CHOOSE k \in 0..(MaxOrders + 1) :
        /\ a <= b * Pow10(k)
        /\ \A j \in 0..(k - 1) : a > b * Pow10(j)

\* math.Floor(math.Log10(a) - math.Log10(b)) for 0 < a < b: minus the least
\* k with b <= a * 10^k.
FloorLogRatio(a, b) == 0 - CeilLogRatio(b, a)

\* calculateMagnitudeDifference(first, second), the number it returns: -0
\* (that is 0) when either is zero, the floor of the difference of the
\* logarithms when first is smaller, 0 when first is up to ten times second,
\* else the ceiling.
calculateMagnitudeDifference(first, second) ==
    IF first = 0 THEN 0
    ELSE IF second = 0 THEN 0
    ELSE IF first < second THEN FloorLogRatio(first, second)
    ELSE IF first > second /\ first <= 10 * second THEN 0
    ELSE IF first = second THEN 0
    ELSE CeilLogRatio(first, second)

\* suggestedGasTip: the greater of the node's current tip and the historical one.
SuggestedGasTip(currentGasTip, historicalSuggestedTip) ==
    IF historicalSuggestedTip > currentGasTip THEN historicalSuggestedTip
    ELSE currentGasTip

\* The branch under m.Cfg.IsExperimentEnabled(Experiment_Eip1559FeeEqualier).
FeeEqualizer(baseFee, suggestedGasTip) ==
    LET diff == calculateMagnitudeDifference(baseFee, suggestedGasTip)
    IN IF diff = 0
       THEN IF baseFee = 0
            THEN [baseFee |-> suggestedGasTip, tip |-> suggestedGasTip]
            ELSE [baseFee |-> baseFee, tip |-> baseFee]
       ELSE IF diff < 3 THEN [baseFee |-> suggestedGasTip, tip |-> suggestedGasTip]
       ELSE IF diff > 3 THEN [baseFee |-> baseFee, tip |-> baseFee]
       ELSE [baseFee |-> baseFee, tip |-> suggestedGasTip]

EqStart(enabled, baseFee, currentGasTip, historicalTip) ==
    [pc |-> "start", enabled |-> enabled, baseFee |-> baseFee,
     currentGasTip |-> currentGasTip, historicalTip |-> historicalTip,
     tip |-> -1, outBaseFee |-> -1, outTip |-> -1]

InitEqVars ==
    eq \in { EqStart(e, b, c, h) : e \in BOOLEAN, b \in FeeValues, c \in FeeValues,
                                    h \in FeeValues }
IdleEqVars == eq = [EqStart(FALSE, 0, 0, 0) EXCEPT !.pc = "idle"]

\* Lines 199-205: the tip the rest of the estimation starts from.
ChooseTip ==
    /\ eq.pc = "start"
    /\ eq' = [eq EXCEPT !.pc = "tip",
                        !.tip = SuggestedGasTip(eq.currentGasTip, eq.historicalTip)]

\* Lines 207-227: the equalizer, when the experiment is enabled.
Equalize ==
    /\ eq.pc = "tip"
    /\ LET r == IF eq.enabled THEN FeeEqualizer(eq.baseFee, eq.tip)
                ELSE [baseFee |-> eq.baseFee, tip |-> eq.tip]
       IN eq' = [eq EXCEPT !.pc = "done", !.outBaseFee = r.baseFee, !.outTip = r.tip]

(***************************************************************************)
(* GetSuggestedEIP1559Fees with wei amounts and with the fee equalizer     *)
(* experiment on or off. The values before the check against               *)
(* maxAllowedTxCost are kept next to the returned ones.                    *)
(***************************************************************************)
WeiTips == {0, 30, 700}
WeiBaseFees == {0, 2, 9000}
WeiFeeAnswers ==
    { [hintOK |-> TRUE, hint |-> t, historyOK |-> TRUE, baseFee |-> b, histTip |-> ht,
       lastOK |-> TRUE, fetched |-> EstimationBlocks, counted |-> EstimationBlocks + 1,
       metric |-> m] : t \in WeiTips, b \in WeiBaseFees, ht \in {0, 30}, m \in Metrics }

\* adjustedTipCap * changeRatio, changeRatio being maxFeeCap / rawMaxFeeCap,
\* truncated to an int64.
ScaleTipNever(adjustedTipCap, maxFeeCap, rawMaxFeeCap) == adjustedTipCap
ScaleTip(adjustedTipCap, maxFeeCap, rawMaxFeeCap) ==
    (adjustedTipCap * maxFeeCap) \div rawMaxFeeCap

\* The whole of GetSuggestedEIP1559Fees; equalize is
\* m.Cfg.IsExperimentEnabled(Experiment_Eip1559FeeEqualier).
SuggestedEIP1559Fees(cfg, priority, a, equalize) ==
    LET h == HistoricalFeeData(priority, a)
        picked == SuggestedGasTip(a.hint, h.tip)
        e == IF equalize THEN FeeEqualizer(h.baseFee, picked)
             ELSE [baseFee |-> h.baseFee, tip |-> picked]
        af == getAdjustmentFactor(priority)
        cm == CalculateNetworkCongestionMetric(EstimationBlocks, a)
        adj == congestionAdjustment(cm.metric, af.factor, e.tip)
        adjustedTipCap == e.tip + adj
        rawMaxFeeCap == (e.baseFee + adj) + adjustedTipCap
        maxProposedFeeCap == rawMaxFeeCap
                      + buffer(rawMaxFeeCap, getBufferPercent(classifyCongestion(cm.metric)))
        capped == maxProposedFeeCap * cfg.GasLimit > cfg.MaxTxCost
        maxFeeCap == Cap(maxProposedFeeCap, cfg.GasLimit, cfg.MaxTxCost)
        failed(err) == [err |-> err, fee |-> NilFee, tip |-> NilFee, capped |-> FALSE,
                        suggestedGasTip |-> NilFee, adjustedTipCap |-> NilFee,
                        rawMaxFeeCap |-> NilFee, maxProposedFeeCap |-> NilFee]
    IN IF ~a.hintOK THEN failed(ErrRPC)
       ELSE IF h.err # "" THEN failed(h.err)
       ELSE IF af.err # "" THEN failed(af.err)
       ELSE IF cm.err # "" THEN failed(cm.err)
       ELSE [err |-> "", fee |-> maxFeeCap,
             tip |-> IF capped THEN ScaleTip(adjustedTipCap, maxFeeCap, rawMaxFeeCap)
                     ELSE adjustedTipCap,
             capped |-> capped, suggestedGasTip |-> e.tip,
             adjustedTipCap |-> adjustedTipCap, rawMaxFeeCap |-> rawMaxFeeCap,
             maxProposedFeeCap |-> maxProposedFeeCap]

EstimateEIP1559Wei ==
    /\ est.pc = "idle"
    /\ \E priority \in Priorities, a \in WeiFeeAnswers, equalize \in BOOLEAN :
         LET res == SuggestedEIP1559Fees(gasCfg, priority, a, equalize)
         IN est' = [pc |-> "done", kind |-> "eip1559", priority |-> priority,
                    fetched |-> a.fetched, hint |-> a.hint, metric |-> a.metric,
                    baseFee |-> a.baseFee, histTip |-> a.histTip, equalize |-> equalize,
                    err |-> res.err, fee |-> res.fee, tip |-> res.tip,
                    capped |-> res.capped, suggestedGasTip |-> res.suggestedGasTip,
                    adjustedTipCap |-> res.adjustedTipCap,
                    rawMaxFeeCap |-> res.rawMaxFeeCap,
                    maxProposedFeeCap |-> res.maxProposedFeeCap,
                    usedFee |-> FeeCapOrDefault(res), usedTip |-> TipCapOrDefault(res)]
    /\ UNCHANGED gasCfg

(***************************************************************************)
(* PriorityBasedGasBumpingStrategyFn: the gas bump strategy of a priority. *)
(* The fee goes through a float64, is multiplied and truncated to an       *)
(* int64; the fees here are far below 2^53, where the float is exact.      *)
(***************************************************************************)
MaxBumpFee == 40     \* fees given to a strategy range over 1..MaxBumpFee

BumpPriorities == {"degen", "fast", "standard", "slow", "other"}
NoStrategyCall == [pc |-> "idle", priority |-> "", fee |-> 0, out |-> 0]

InitBumpVars == bump = NoStrategyCall
IdleBumpVars == bump = NoStrategyCall

\* big.NewFloat(gasPriceFloat) * big.NewFloat(factor), truncated by Int64();
\* the factor is given in hundredths.
MulTrunc(fee, hundredths) == (fee * hundredths) \div 100

PriorityBasedGasBumpingStrategyFn(priority, gasPrice) ==
    CASE priority = "degen"    -> gasPrice * 2
      [] priority = "fast"     -> MulTrunc(gasPrice, 150)
      [] priority = "standard" -> MulTrunc(gasPrice, 115)
      [] priority = "slow"     -> MulTrunc(gasPrice, 105)
      [] OTHER                 -> gasPrice

\* A strategy is built for a priority and called with a fee.
CallStrategy ==
    /\ bump.pc = "idle"
    /\ \E priority \in BumpPriorities, fee \in 1..MaxBumpFee :
          bump' = [pc |-> "done", priority |-> priority, fee |-> fee,
                   out |-> PriorityBasedGasBumpingStrategyFn(priority, fee)]

(***************************************************************************)
(* Specifications                                                          *)
(***************************************************************************)
NonceInit ==
    InitNonceVars /\ InitXferVars /\ IdleOptsVars /\ IdleLifeVars /\ IdleCacheVars
      /\ IdleGasVars
      /\ IdleDecodeVars
      /\ IdleMapVars
      /\ IdleWaitVars
      /\ IdleFanVars
      /\ IdleEqVars
      /\ IdleBumpVars

NonceNext ==
    \/ \E k \in KeyNums : NextNonce(k) /\ UNCHANGED <<xferVars, optsVars, lifeVars, cacheVars, gasVars, decodeVars, mapVars, waitVars, fanVars, eqVars, bumpVars>>
    \/ UpdateNoncesStart /\ UNCHANGED <<xferVars, optsVars, lifeVars, cacheVars, gasVars, decodeVars, mapVars, waitVars, fanVars, eqVars, bumpVars>>
    \/ SyncKeyRetry /\ UNCHANGED <<xferVars, optsVars, lifeVars, cacheVars, gasVars, decodeVars, mapVars, waitVars, fanVars, eqVars, bumpVars>>
    \/ SyncKeyExhausted /\ UNCHANGED <<xferVars, optsVars, lifeVars, cacheVars, gasVars, decodeVars, mapVars, waitVars, fanVars, eqVars, bumpVars>>
    \/ \E p \in NonceRange :
          SyncKeyFetched(p) /\ UNCHANGED <<xferVars, optsVars, lifeVars, cacheVars, gasVars, decodeVars, mapVars, waitVars, fanVars, eqVars, bumpVars>>
    \/ SyncKeyWrite /\ UNCHANGED <<xferVars, optsVars, lifeVars, cacheVars, gasVars, decodeVars, mapVars, waitVars, fanVars, eqVars, bumpVars>>
    \/ UpdateNoncesReturn /\ UNCHANGED <<xferVars, optsVars, lifeVars, cacheVars, gasVars, decodeVars, mapVars, waitVars, fanVars, eqVars, bumpVars>>

NonceSpec == NonceInit /\ [][NonceNext]_vars

TransferInit ==
    InitNonceVars /\ InitXferVars /\ IdleOptsVars /\ IdleLifeVars /\ IdleCacheVars
      /\ IdleGasVars
      /\ IdleDecodeVars
      /\ IdleMapVars
      /\ IdleWaitVars
      /\ IdleFanVars
      /\ IdleEqVars
      /\ IdleBumpVars

TransferNext ==
    \/ \E g \in Goroutines, n \in 0..(NumKeys + 1) :
          TransferCall(g, n) /\ UNCHANGED <<optsVars, lifeVars, cacheVars, gasVars, decodeVars, mapVars, waitVars, fanVars, eqVars, bumpVars>>
    \/ \E g \in Goroutines, ok \in BOOLEAN :
          TransferNetworkID(g, ok) /\ UNCHANGED <<optsVars, lifeVars, cacheVars, gasVars, decodeVars, mapVars, waitVars, fanVars, eqVars, bumpVars>>
    \/ \E g \in Goroutines : TransferIndexPanic(g) /\ UNCHANGED <<optsVars, lifeVars, cacheVars, gasVars, decodeVars, mapVars, waitVars, fanVars, eqVars, bumpVars>>
    \/ \E g \in Goroutines : TransferNextNonce(g) /\ UNCHANGED <<optsVars, lifeVars, cacheVars, gasVars, decodeVars, mapVars, waitVars, fanVars, eqVars, bumpVars>>
    \/ \E g \in Goroutines, ok \in BOOLEAN :
          TransferSend(g, ok) /\ UNCHANGED <<optsVars, lifeVars, cacheVars, gasVars, decodeVars, mapVars, waitVars, fanVars, eqVars, bumpVars>>
    \/ \E g \in Goroutines, ok \in BOOLEAN :
          TransferWaitMined(g, ok) /\ UNCHANGED <<optsVars, lifeVars, cacheVars, gasVars, decodeVars, mapVars, waitVars, fanVars, eqVars, bumpVars>>
    \/ \E g \in Goroutines : TransferReturn(g) /\ UNCHANGED <<optsVars, lifeVars, cacheVars, gasVars, decodeVars, mapVars, waitVars, fanVars, eqVars, bumpVars>>

TransferSpec == TransferInit /\ [][TransferNext]_vars

OptsInit ==
    IdleNonceVars /\ InitXferVars /\ InitOptsVars /\ IdleLifeVars /\ IdleCacheVars
      /\ IdleGasVars
      /\ IdleDecodeVars
      /\ IdleMapVars
      /\ IdleWaitVars
      /\ IdleFanVars
      /\ IdleEqVars
      /\ IdleBumpVars

OptsNext ==
    \/ \E k \in KeyNums, rpc \in RPCOutcomes, w \in {NoValue, MaxNonce} :
          NewTXKeyOpts(k, rpc, w) /\ UNCHANGED <<xferVars, lifeVars, cacheVars, gasVars, decodeVars, mapVars, waitVars, fanVars, eqVars, bumpVars>>
    \/ \E k \in KeyNums :
          RemoteAdvance(k) /\ UNCHANGED <<xferVars, optsVars, lifeVars, cacheVars, gasVars, decodeVars, mapVars, waitVars, fanVars, eqVars, bumpVars>>

OptsSpec == OptsInit /\ [][OptsNext]_vars

\* The client builds options and decodes the transactions made with them.
BuiltNext ==
    \/ \E k \in KeyNums, rpc \in RPCOutcomes, w \in {NoValue, MaxNonce} :
          NewTXKeyOpts(k, rpc, w) /\ UNCHANGED <<xferVars, lifeVars, cacheVars, gasVars, decodeVars, mapVars, waitVars, fanVars, eqVars, bumpVars>>
    \/ \E i \in 1..MaxOptsCalls :
          DecodeBuilt(i) /\ UNCHANGED <<nonceVars, xferVars, lifeVars, cacheVars, gasVars, decodeVars, mapVars, waitVars, fanVars, eqVars, bumpVars>>

BuiltSpec == OptsInit /\ [][BuiltNext]_vars

LifeInit ==
    IdleNonceVars /\ InitXferVars /\ IdleOptsVars /\ InitLifeVars /\ IdleCacheVars
      /\ IdleGasVars
      /\ IdleDecodeVars
      /\ IdleMapVars
      /\ IdleWaitVars
      /\ IdleFanVars
      /\ IdleEqVars
      /\ IdleBumpVars

LifeNext ==
    \/ SubmitOK /\ UNCHANGED <<nonceVars, xferVars, optsVars, cacheVars, gasVars, decodeVars, mapVars, waitVars, fanVars, eqVars, bumpVars>>
    \/ SubmitRefused /\ UNCHANGED <<nonceVars, xferVars, optsVars, cacheVars, gasVars, decodeVars, mapVars, waitVars, fanVars, eqVars, bumpVars>>
    \/ \E e \in SubmitErrors :
          SubmitFailed(e) /\ UNCHANGED <<nonceVars, xferVars, optsVars, cacheVars, gasVars, decodeVars, mapVars, waitVars, fanVars, eqVars, bumpVars>>
    \/ \E v \in node.accepted : Mine(v) /\ UNCHANGED <<nonceVars, xferVars, optsVars, cacheVars, gasVars, decodeVars, mapVars, waitVars, fanVars, eqVars, bumpVars>>
    \/ WaitMinedReceipt /\ UNCHANGED <<nonceVars, xferVars, optsVars, cacheVars, gasVars, decodeVars, mapVars, waitVars, fanVars, eqVars, bumpVars>>
    \/ WaitMinedDeadline /\ UNCHANGED <<nonceVars, xferVars, optsVars, cacheVars, gasVars, decodeVars, mapVars, waitVars, fanVars, eqVars, bumpVars>>
    \/ \E byHash \in {"err", "notPending", "pending"}, sendOK \in BOOLEAN :
          BumpOnTimeout(byHash, sendOK) /\ UNCHANGED <<nonceVars, xferVars, optsVars, cacheVars, gasVars, decodeVars, mapVars, waitVars, fanVars, eqVars, bumpVars>>
    \/ LifecycleTimeout /\ UNCHANGED <<nonceVars, xferVars, optsVars, cacheVars, gasVars, decodeVars, mapVars, waitVars, fanVars, eqVars, bumpVars>>

LifeSpec == LifeInit /\ [][LifeNext]_vars

CacheInit ==
    IdleNonceVars /\ InitXferVars /\ IdleOptsVars /\ IdleLifeVars /\ InitCacheVars
      /\ IdleGasVars
      /\ IdleDecodeVars
      /\ IdleMapVars
      /\ IdleWaitVars
      /\ IdleFanVars
      /\ IdleEqVars
      /\ IdleBumpVars

CacheNext ==
    \/ \E bn \in Blocks : Get(bn) /\ UNCHANGED <<nonceVars, xferVars, optsVars, lifeVars, gasVars, decodeVars, mapVars, waitVars, fanVars, eqVars, bumpVars>>
    \/ SetNil /\ UNCHANGED <<nonceVars, xferVars, optsVars, lifeVars, gasVars, decodeVars, mapVars, waitVars, fanVars, eqVars, bumpVars>>
    \/ \E bn \in Blocks : Set(bn) /\ UNCHANGED <<nonceVars, xferVars, optsVars, lifeVars, gasVars, decodeVars, mapVars, waitVars, fanVars, eqVars, bumpVars>>

CacheSpec == CacheInit /\ [][CacheNext]_vars

\* The cache with every header fetched any number of times.
ItemNext ==
    \/ \E bn \in HotBlocks : Get(bn) /\ UNCHANGED <<nonceVars, xferVars, optsVars, lifeVars, gasVars, decodeVars, mapVars, waitVars, fanVars, eqVars, bumpVars>>
    \/ \E bn \in HotBlocks, obj \in Headers :
          SetBlock(bn, obj) /\ UNCHANGED <<nonceVars, xferVars, optsVars, lifeVars, gasVars, decodeVars, mapVars, waitVars, fanVars, eqVars, bumpVars>>

ItemSpec == CacheInit /\ [][ItemNext]_vars

GoCacheInit ==
    IdleNonceVars /\ InitXferVars /\ IdleOptsVars /\ IdleLifeVars /\ InitCacheVars
      /\ IdleGasVars
      /\ IdleDecodeVars
      /\ IdleMapVars
      /\ IdleWaitVars
      /\ IdleFanVars
      /\ IdleEqVars
      /\ IdleBumpVars

GoCacheNext ==
    \/ \E g \in Callers, op \in {"Get", "Set"}, bn \in HotBlocks :
          CacheCall(g, op, bn) /\ UNCHANGED <<nonceVars, xferVars, optsVars, lifeVars, gasVars, decodeVars, mapVars, waitVars, fanVars, eqVars, bumpVars>>
    \/ \E g \in Callers : CacheLock(g) /\ UNCHANGED <<nonceVars, xferVars, optsVars, lifeVars, gasVars, decodeVars, mapVars, waitVars, fanVars, eqVars, bumpVars>>
    \/ \E g \in Callers : GetLookup(g) /\ UNCHANGED <<nonceVars, xferVars, optsVars, lifeVars, gasVars, decodeVars, mapVars, waitVars, fanVars, eqVars, bumpVars>>
    \/ \E g \in Callers : GetIncrement(g) /\ UNCHANGED <<nonceVars, xferVars, optsVars, lifeVars, gasVars, decodeVars, mapVars, waitVars, fanVars, eqVars, bumpVars>>
    \/ \E g \in Callers : SetBody(g) /\ UNCHANGED <<nonceVars, xferVars, optsVars, lifeVars, gasVars, decodeVars, mapVars, waitVars, fanVars, eqVars, bumpVars>>
    \/ \E g \in Callers : CacheUnlock(g) /\ UNCHANGED <<nonceVars, xferVars, optsVars, lifeVars, gasVars, decodeVars, mapVars, waitVars, fanVars, eqVars, bumpVars>>

GoCacheSpec == GoCacheInit /\ [][GoCacheNext]_vars

(***************************************************************************)
(* Properties of the NonceManager (NonceSpec, TransferSpec)                *)
GasInit ==
    IdleNonceVars /\ InitXferVars /\ IdleOptsVars /\ IdleLifeVars /\ IdleCacheVars
      /\ InitGasVars
      /\ IdleDecodeVars
      /\ IdleMapVars
      /\ IdleWaitVars
      /\ IdleFanVars
      /\ IdleEqVars
      /\ IdleBumpVars

GasNext ==
    \/ EstimateLegacy /\ UNCHANGED <<nonceVars, xferVars, optsVars, lifeVars, cacheVars, decodeVars, mapVars, waitVars, fanVars, eqVars, bumpVars>>
    \/ EstimateEIP1559 /\ UNCHANGED <<nonceVars, xferVars, optsVars, lifeVars, cacheVars, decodeVars, mapVars, waitVars, fanVars, eqVars, bumpVars>>

GasSpec == GasInit /\ [][GasNext]_vars

WeiInit ==
    IdleNonceVars /\ InitXferVars /\ IdleOptsVars /\ IdleLifeVars /\ IdleCacheVars
      /\ InitWeiVars
      /\ IdleDecodeVars
      /\ IdleMapVars
      /\ IdleWaitVars
      /\ IdleFanVars
      /\ IdleEqVars
      /\ IdleBumpVars

WeiNext ==
    \/ EstimateLegacyWei /\ UNCHANGED <<nonceVars, xferVars, optsVars, lifeVars, cacheVars, decodeVars, mapVars, waitVars, fanVars, eqVars, bumpVars>>
    \/ EstimateEIP1559Wei /\ UNCHANGED <<nonceVars, xferVars, optsVars, lifeVars, cacheVars, decodeVars, mapVars, waitVars, fanVars, eqVars, bumpVars>>

WeiSpec == WeiInit /\ [][WeiNext]_vars

DecodeInit ==
    IdleNonceVars /\ InitXferVars /\ IdleOptsVars /\ IdleLifeVars /\ IdleCacheVars
      /\ IdleGasVars
      /\ InitDecodeVars
      /\ IdleMapVars
      /\ IdleWaitVars
      /\ IdleFanVars
      /\ IdleEqVars
      /\ IdleBumpVars

DecodeNext ==
    \/ Decode /\ UNCHANGED <<nonceVars, xferVars, optsVars, lifeVars, cacheVars, gasVars, mapVars, waitVars, fanVars, eqVars, bumpVars>>

DecodeSpec == DecodeInit /\ [][DecodeNext]_vars

ReconInit ==
    IdleNonceVars /\ InitXferVars /\ IdleOptsVars /\ IdleLifeVars /\ IdleCacheVars
      /\ IdleGasVars
      /\ InitReconVars
      /\ IdleMapVars
      /\ IdleWaitVars
      /\ IdleFanVars
      /\ IdleEqVars
      /\ IdleBumpVars

ReconNext ==
    \/ DecodeReconciled /\ UNCHANGED <<nonceVars, xferVars, optsVars, lifeVars, cacheVars, gasVars, mapVars, waitVars, fanVars, eqVars, bumpVars>>

ReconSpec == ReconInit /\ [][ReconNext]_vars

TracersNext ==
    \/ \E g \in Tracers, frames \in TracedFrames :
          DecodeTraceBegin(g, frames) /\ UNCHANGED <<nonceVars, xferVars, optsVars, lifeVars, cacheVars, gasVars, mapVars, waitVars, fanVars, eqVars, bumpVars>>
    \/ \E g \in Tracers :
          DecodeTraceStore(g) /\ UNCHANGED <<nonceVars, xferVars, optsVars, lifeVars, cacheVars, gasVars, mapVars, waitVars, fanVars, eqVars, bumpVars>>

TracersSpec == ReconInit /\ [][TracersNext]_vars

MapInit ==
    IdleNonceVars /\ InitXferVars /\ IdleOptsVars /\ IdleLifeVars /\ IdleCacheVars
      /\ IdleGasVars
      /\ IdleDecodeVars
      /\ InitMapVars
      /\ IdleWaitVars
      /\ IdleFanVars
      /\ IdleEqVars
      /\ IdleBumpVars

MapNext ==
    \/ \E g \in Deployers, name \in {"NetworkDebugContract", "LinkToken.abi"} :
          DeployContractDeployed(g, name)
            /\ UNCHANGED <<nonceVars, xferVars, optsVars, lifeVars, cacheVars, gasVars, decodeVars, waitVars, fanVars, eqVars, bumpVars>>
    \/ \E g \in Deployers, name \in {"NetworkDebugContract", "LinkToken.abi"},
          err \in DeployErrors :
          DeployContractFailed(g, name, err)
            /\ UNCHANGED <<nonceVars, xferVars, optsVars, lifeVars, cacheVars, gasVars, decodeVars, waitVars, fanVars, eqVars, bumpVars>>
    \/ \E g \in Deployers :
          AddContractBegin(g)
            /\ UNCHANGED <<nonceVars, xferVars, optsVars, lifeVars, cacheVars, gasVars, decodeVars, waitVars, fanVars, eqVars, bumpVars>>
    \/ \E g \in Deployers :
          AddContractEnd(g)
            /\ UNCHANGED <<nonceVars, xferVars, optsVars, lifeVars, cacheVars, gasVars, decodeVars, waitVars, fanVars, eqVars, bumpVars>>
    \/ \E a \in ContractAddrs :
          GetContractName(a)
            /\ UNCHANGED <<nonceVars, xferVars, optsVars, lifeVars, cacheVars, gasVars, decodeVars, waitVars, fanVars, eqVars, bumpVars>>
    \/ \E name \in ContractNames :
          GetContractAddress(name)
            /\ UNCHANGED <<nonceVars, xferVars, optsVars, lifeVars, cacheVars, gasVars, decodeVars, waitVars, fanVars, eqVars, bumpVars>>

MapSpec == MapInit /\ [][MapNext]_vars

WaitInit ==
    IdleNonceVars /\ InitXferVars /\ IdleOptsVars /\ IdleLifeVars /\ IdleCacheVars
      /\ IdleGasVars
      /\ IdleDecodeVars
      /\ IdleMapVars
      /\ InitWaitVars
      /\ IdleFanVars
      /\ IdleEqVars
      /\ IdleBumpVars

\* The steps of WaitMined and of its environment; nothing else moves.
WaitTickStep == WaitTick /\ UNCHANGED <<nonceVars, xferVars, optsVars, lifeVars, cacheVars, gasVars, decodeVars, mapVars, fanVars, eqVars, bumpVars>>
WaitPollStep == WaitPoll /\ UNCHANGED <<nonceVars, xferVars, optsVars, lifeVars, cacheVars, gasVars, decodeVars, mapVars, fanVars, eqVars, bumpVars>>
WaitSelectDoneStep == WaitSelectDone /\ UNCHANGED <<nonceVars, xferVars, optsVars, lifeVars, cacheVars, gasVars, decodeVars, mapVars, fanVars, eqVars, bumpVars>>

WaitNext ==
    \/ WaitTickStep
    \/ WaitCancel /\ UNCHANGED <<nonceVars, xferVars, optsVars, lifeVars, cacheVars, gasVars, decodeVars, mapVars, fanVars, eqVars, bumpVars>>
    \/ WaitMine /\ UNCHANGED <<nonceVars, xferVars, optsVars, lifeVars, cacheVars, gasVars, decodeVars, mapVars, fanVars, eqVars, bumpVars>>
    \/ WaitPollStep
    \/ WaitSelectDoneStep
    \/ WaitSelectTick /\ UNCHANGED <<nonceVars, xferVars, optsVars, lifeVars, cacheVars, gasVars, decodeVars, mapVars, fanVars, eqVars, bumpVars>>

WaitSpec == WaitInit /\ [][WaitNext]_vars

\* Time passes, an RPC in flight is answered, and a select statement with
\* several ready cases picks each of them sooner or later (the Go runtime
\* chooses among ready cases uniformly at random).
WaitFairSpec ==
    /\ WaitSpec
    /\ WF_vars(WaitTickStep)
    /\ WF_vars(WaitPollStep)
    /\ SF_vars(WaitSelectDoneStep)

FanInit ==
    IdleNonceVars /\ InitXferVars /\ IdleOptsVars /\ IdleLifeVars /\ IdleCacheVars
      /\ IdleGasVars
      /\ IdleDecodeVars
      /\ IdleMapVars
      /\ IdleWaitVars
      /\ InitFanVars
      /\ IdleEqVars
      /\ IdleBumpVars

FanNext ==
    \/ \E g \in 1..FanBlocks :
          FetchHeaderOK(g) /\ UNCHANGED <<nonceVars, xferVars, optsVars, lifeVars, cacheVars, gasVars, decodeVars, mapVars, waitVars, eqVars, bumpVars>>
    \/ \E g \in 1..FanBlocks :
          FetchHeaderFailed(g) /\ UNCHANGED <<nonceVars, xferVars, optsVars, lifeVars, cacheVars, gasVars, decodeVars, mapVars, waitVars, eqVars, bumpVars>>
    \/ \E g \in 1..FanBlocks :
          SendHeader(g) /\ UNCHANGED <<nonceVars, xferVars, optsVars, lifeVars, cacheVars, gasVars, decodeVars, mapVars, waitVars, eqVars, bumpVars>>
    \/ CollectHeader /\ UNCHANGED <<nonceVars, xferVars, optsVars, lifeVars, cacheVars, gasVars, decodeVars, mapVars, waitVars, eqVars, bumpVars>>
    \/ WaitAndClose /\ UNCHANGED <<nonceVars, xferVars, optsVars, lifeVars, cacheVars, gasVars, decodeVars, mapVars, waitVars, eqVars, bumpVars>>
    \/ EvaluateHeaders /\ UNCHANGED <<nonceVars, xferVars, optsVars, lifeVars, cacheVars, gasVars, decodeVars, mapVars, waitVars, eqVars, bumpVars>>

FanSpec == FanInit /\ [][FanNext]_vars

EqInit ==
    IdleNonceVars /\ InitXferVars /\ IdleOptsVars /\ IdleLifeVars /\ IdleCacheVars
      /\ IdleGasVars
      /\ IdleDecodeVars
      /\ IdleMapVars
      /\ IdleWaitVars
      /\ IdleFanVars
      /\ InitEqVars
      /\ IdleBumpVars

EqNext ==
    \/ ChooseTip /\ UNCHANGED <<nonceVars, xferVars, optsVars, lifeVars, cacheVars, gasVars, decodeVars, mapVars, waitVars, fanVars, bumpVars>>
    \/ Equalize /\ UNCHANGED <<nonceVars, xferVars, optsVars, lifeVars, cacheVars, gasVars, decodeVars, mapVars, waitVars, fanVars, bumpVars>>

EqSpec == EqInit /\ [][EqNext]_vars

BumpInit ==
    IdleNonceVars /\ InitXferVars /\ IdleOptsVars /\ IdleLifeVars /\ IdleCacheVars
      /\ IdleGasVars
      /\ IdleDecodeVars
      /\ IdleMapVars
      /\ IdleWaitVars
      /\ IdleFanVars
      /\ IdleEqVars
      /\ InitBumpVars

BumpNext ==
    \/ CallStrategy /\ UNCHANGED <<nonceVars, xferVars, optsVars, lifeVars, cacheVars, gasVars, decodeVars, mapVars, waitVars, fanVars, eqVars>>

BumpSpec == BumpInit /\ [][BumpNext]_vars

(***************************************************************************)
\* C1: for every key, each value NextNonce returns is strictly greater than
\* every value it returned earlier for that key, whatever NextNonce and
\* UpdateNonces calls, failing ones included, come in between.
C1_NextNonceStrictlyIncreasing ==
    \A k \in KeyNums : \A i, j \in 1..Len(issued[k]) :
        i < j => issued[k][i] < issued[k][j]

\* An UpdateNonces call raised the counter of key k and then failed on a later
\* key; NextNonce(k) was called before and during that call.
C1_Witness ==
    \E k \in KeyNums :
        /\ upd.pc = "failed"
        /\ upd.failedKey > k
        /\ upd.raced[k]
        /\ Len(issued[k]) >= 2
        /\ issued[k][Len(issued[k])] > issued[k][Len(issued[k]) - 1] + 1

\* C2: the nonces that concurrent TransferETHFromKey goroutines obtain from
\* NextNonce for the same key are pairwise distinct.
C2_ConcurrentNoncesDistinct ==
    \A g, h \in Goroutines : \A i \in 1..Len(got[g]), j \in 1..Len(got[h]) :
        (<<g, i>> # <<h, j>> /\ got[g][i].key = got[h][j].key)
            => got[g][i].nonce # got[h][j].nonce

\* Every goroutine holds a nonce of the root key and none has sent yet.
C2_Witness ==
    \A g \in Goroutines :
        /\ xfer[g].pc = "send"
        /\ Len(got[g]) = 1
        /\ got[g][1].key = 0

\* C3: when UpdateNonces has succeeded, the counter of each key is neither
\* below its value at the start of the call nor below the pending count the
\* node reported, and equals the greater of the two unless NextNonce moved
\* the counter during the call.
C3_ReconcileTakesMax ==
    upd.pc = "ok" =>
        \A k \in KeyNums :
            /\ Nonces[k] >= upd.pre[k]
            /\ Nonces[k] >= remote[k]
            /\ ~upd.raced[k] => Nonces[k] = Max(upd.pre[k], remote[k])

\* A successful call that raised one counter to the node's count and left
\* another, which was ahead of the node, as it was.
C3_Witness ==
    /\ upd.pc = "ok"
    /\ \E k \in KeyNums :
          ~upd.raced[k] /\ remote[k] > upd.pre[k] /\ Nonces[k] = remote[k]
    /\ \E k \in KeyNums :
          ~upd.raced[k] /\ remote[k] < upd.pre[k] /\ Nonces[k] = upd.pre[k]

(***************************************************************************)
(* Properties of NewTXOpts / NewTXKeyOpts (OptsSpec)                       *)
(***************************************************************************)
\* The calls that reached the node and carried no WithNonce option.
PlainCalls == { i \in 1..Len(optsLog) : optsLog[i].ok /\ optsLog[i].withNonce = NoValue }

\* C4 as stated: successive calls of NewTXOpts / NewTXKeyOpts for one key
\* return nonces that are pairwise distinct and increasing.
C4_Original ==
    \A i, j \in PlainCalls :
        (i < j /\ optsLog[i].key = optsLog[j].key)
            => optsLog[i].opts.Nonce < optsLog[j].opts.Nonce

\* C4, amended: the nonce in the options is the WithNonce value if one is
\* given, else the node's pending count of the key at the time of the call,
\* else 0 with an error recorded in Client.Errors when a node query failed;
\* so two calls for one key return increasing nonces exactly when the pending
\* count rose between them.
C4_NonceIsPendingCount ==
    /\ \A i \in 1..Len(optsLog) :
          LET e == optsLog[i]
          IN e.opts.Nonce = IF e.withNonce # NoValue THEN e.withNonce
                            ELSE IF e.ok THEN e.pending ELSE 0
    /\ Len(Errors) = Cardinality({ i \in 1..Len(optsLog) : ~optsLog[i].ok })
    /\ \A i, j \in PlainCalls :
          (i < j /\ optsLog[i].key = optsLog[j].key)
              => (optsLog[i].opts.Nonce < optsLog[j].opts.Nonce
                    <=> optsLog[i].pending < optsLog[j].pending)

\* Two plain calls for one key with nothing sent in between: the same nonce twice.
C4_Witness ==
    \E i, j \in PlainCalls :
        /\ i < j
        /\ optsLog[i].key = optsLog[j].key
        /\ optsLog[i].opts.Nonce = optsLog[j].opts.Nonce
        /\ optsLog[j].pending > 0

(***************************************************************************)
(* Properties of the transaction lifecycle (LifeSpec)                      *)
(***************************************************************************)
\* C5: every replacement bumpGasOnTimeout signed carries the nonce, sender,
\* to, value, data and gas limit of the original transaction; only the fee
\* fields differ from the original.
C5_OnlyFeesDiffer ==
    \A r \in signedTxs :
        /\ r.nonce = life.orig.nonce
        /\ r.from = life.orig.from
        /\ r.to = life.orig.to
        /\ r.value = life.orig.value
        /\ r.data = life.orig.data
        /\ r.gas = life.orig.gas
        /\ r.type = life.orig.type
        /\ r.accessList = life.orig.accessList

\* C6: the lifecycle makes at most gas_bump_retries bump attempts, and exactly
\* that many when it gives up because the transaction was not included.
C6_BumpAttemptsBounded ==
    /\ life.bumps <= life.retries
    /\ (life.pc = "done" /\ life.cause = "inclusion") => life.bumps = life.retries

\* The lifecycle gave up after as many bump attempts as the largest budget allows.
C6_Witness ==
    /\ life.pc = "done"
    /\ life.cause = "inclusion"
    /\ life.retries = MaxBumpRetries
    /\ life.bumps = MaxBumpRetries
    /\ node.included = NoTx

C9_BumpFailsFast ==
    (lastBump.called /\ lastBump.byHash = "pending") =>
        LET t == lastBump.before
            unknown == \A j \in 1..Len(Addresses) : Addresses[j] # t.from
            unsupported == t.type \notin {LegacyTxType, DynamicFeeTxType}
        IN /\ unknown => lastBump.err = ErrSenderNotFound
           /\ (~unknown /\ unsupported) => lastBump.err = ErrUnsupportedTxType
           /\ (unknown \/ unsupported) =>
                 /\ lastBump.signed = NoTx
                 /\ ~lastBump.sendTried
                 /\ lastBump.calls = 0
                 /\ signedTxs = {}

\* A bump was tried on a pending transaction of an unsupported type from a known sender.
C9_Witness ==
    /\ lastBump.called
    /\ lastBump.byHash = "pending"
    /\ lastBump.before.type \notin {LegacyTxType, DynamicFeeTxType}
    /\ lastBump.before.from = Addresses[2]
    /\ lastBump.err = ErrUnsupportedTxType
    /\ life.bumps > 1

(***************************************************************************)
(* Properties of the LFUBlockCache (CacheSpec)                             *)
(***************************************************************************)
\* C10: after any sequence of Get and Set calls the cache holds at most
\* `capacity` entries.
C10_AtMostCapacity ==
    Cardinality(DOMAIN cache) <= capacity

\* C11: when Set inserts a block number that is not cached into a full cache,
\* exactly one entry leaves the cache, and it is one of lowest frequency and,
\* among those, of lowest block number.
C11_EvictsLeastFrequentOldest ==
    LET old == lastSet.before
    IN (lastSet.called /\ lastSet.bn \notin DOMAIN old
          /\ Cardinality(DOMAIN old) >= capacity) =>
         \E e \in DOMAIN old :
            /\ DOMAIN cache = ((DOMAIN old) \ {e}) \cup {lastSet.bn}
            /\ \A b \in DOMAIN old :
                  old[e] < old[b] \/ (old[e] = old[b] /\ e <= b)

\* C12: concurrent Get and Set calls behave as if executed one at a time:
\* the frequency of every cached block is one for its insertion plus one for
\* each hit since, so no hit is lost and no frequency ever goes down while
\* the block stays cached; and at most one goroutine is inside a call body.
C12_HitsCountedOnce ==
    /\ DOMAIN hits = DOMAIN cache
    /\ \A b \in DOMAIN cache : cache[b] = hits[b]
    /\ Cardinality({ g \in Callers : callers[g].pc \in {"body", "incr", "unlock"} }) <= 1

\* One goroutine is between the read and the write of a frequency while all
\* the others wait for the mutex with calls for the same block, which has
\* been hit before.
C12_Witness ==
    \E g \in Callers :
        /\ callers[g].pc = "incr"
        /\ mu = g
        /\ cache[callers[g].bn] > 1
        /\ \A h \in Callers \ {g} :
              callers[h].pc = "lock" /\ callers[h].bn = callers[g].bn

\* C13: when fewer than 80 % of the requested block headers are fetched, the
\* estimation does not fail for the lack of headers: it goes on without the
\* congestion metric and returns a fee.
C13_ShortfallStillEstimates ==
    (est.pc = "done" /\ est.fetched < minBlockCount(EstimationBlocks)) =>
        est.err # ErrNotEnoughHeaders

C15_FeeWithinMaxTxCost ==
    (est.pc = "done" /\ est.err = "") =>
        est.fee * gasCfg.GasLimit <= gasCfg.MaxTxCost

\* An estimation returned a fee that the cap lowered below the node's hint.
C15_Witness ==
    /\ est.pc = "done"
    /\ est.err = ""
    /\ gasCfg.GasLimit > 0
    /\ est.hint * gasCfg.GasLimit > gasCfg.MaxTxCost
    /\ est.fee < est.hint
    /\ est.fee > 0

\* The Decode call got a receipt, and the node returns a trace of the
\* transaction that DecodeTrace accepts.
Traceable ==
    /\ dec.pc = "done"
    /\ dec.pre = "ok"
    /\ dec.mined
    /\ dec.traceRPC
    /\ DecodeTrace(dec.frames).err = ""

TopLevelDecodeFailed ==
    /\ dec.pc = "done"
    /\ dec.pre = "ok"
    /\ dec.mined
    /\ dec.status = 1
    /\ dec.decodeErr # ""

C19_MissingABIIsNotAnError ==
    (/\ dec.pc = "done" /\ dec.pre = "ok" /\ dec.mined /\ dec.traceRPC
     /\ TraceReverted(tracing)
     /\ dec.status = 0 \/ TracingEnabled(tracing)
     /\ \A i \in 1..Len(dec.frames) : dec.frames[i] # "short"
     /\ dec.frames[1] # "badInput") =>
        /\ TxHash \in DOMAIN DecodedCalls
        /\ Len(DecodedCalls[TxHash]) = Len(dec.frames)
        /\ \A i \in 1..Len(dec.frames) :
              /\ dec.frames[i] = "noABI" =>
                    DecodedCalls[TxHash][i].comment = CommentMissingABI
              /\ dec.frames[i] = "ok" => DecodedCalls[TxHash][i].method = "decoded"

\* A successful transaction whose main call has no ABI and whose sub call has
\* one was traced.
C19_Witness ==
    /\ dec.pc = "done"
    /\ dec.status = 1
    /\ dec.err = ""
    /\ Len(dec.frames) >= 2
    /\ dec.frames[1] = "noABI"
    /\ dec.frames[2] = "ok"
    /\ TxHash \in DOMAIN DecodedCalls
    /\ DecodedCalls[TxHash][1].comment = CommentMissingABI
    /\ DecodedCalls[TxHash][2].method = "decoded"

\* C20: no reader of the contract map ever observes one address mapped to
\* two different names, whatever the interleaving with DeployContract
\* writers: the names the readers have seen for an address are at most one.
C20_OneNamePerAddress ==
    \A a \in ContractAddrs : Cardinality(observed[a]) <= 1

\* A reader has seen the name of a contract while another DeployContract was
\* inside its map assignment, and the process is still running.
C20_Witness ==
    /\ ~fatal
    /\ \E a \in ContractAddrs : observed[a] # {}
    /\ \E g \in Deployers : deployers[g].pc = "writing"
    /\ \E g \in Deployers : deployers[g].pc = "done"

\* The keys LoadDeployedContracts may have put into the map.
LoadedKeys == { Hex(a) : a \in {"0x33", "0xb2"} }

\* C21: DeployContract adds the entry deployed address -> contract name to the
\* contract map exactly when the deployment succeeds: a call that returned
\* without error left its entry in the map, a call whose deployment failed
\* left no entry, and every entry was loaded from the map file or written by
\* a successful call.
C21_EntryIffDeployed ==
    /\ \A g \in Deployers :
          deployers[g].pc = "done" =>
            /\ deployers[g].err = "none"
            /\ GetContractNameIn(contractMap, deployers[g].addr)
                 = TrimSuffixAbi(deployers[g].name)
    /\ \A g \in Deployers :
          deployers[g].err # "none" =>
            /\ deployers[g].pc = "failed"
            /\ ToLower(deployers[g].addr) \notin DOMAIN contractMap
    /\ \A k \in DOMAIN contractMap :
          \/ k \in LoadedKeys
          \/ \E g \in Deployers :
                /\ deployers[g].pc = "done"
                /\ k = ToLower(deployers[g].addr)
                /\ contractMap[k] = TrimSuffixAbi(deployers[g].name)

\* One DeployContract returned after a successful deployment and another
\* failed waiting for the contract code at its address.
C21_Witness ==
    /\ ~fatal
    /\ \E g \in Deployers : deployers[g].pc = "done"
    /\ \E g \in Deployers :
          deployers[g].pc = "failed" /\ deployers[g].err = ErrNoContractCode

(***************************************************************************)
(* Properties of WaitMined (WaitFairSpec)                                  *)
(***************************************************************************)
\* What WaitMined has returned is a receipt its poll obtained, or the error of
\* the done context taken in the select statement; and no poll follows the
\* select case that saw the context done.
WaitMinedReturnsRight ==
    /\ wm.pollsAfterDone = 0
    /\ wm.pc = "done" =>
         \/ wm.receipt /\ wm.err = "none" /\ wm.lastPoll = "receipt" /\ wm.mined
         \/ ~wm.receipt /\ wm.observedDone /\ wm.err = wm.ctxErr
              /\ wm.err \in {ErrDeadlineExceeded, ErrCanceled}
    /\ wm.lastPoll = "receipt" => wm.pc = "done"

\* C22: WaitMined always returns: with the receipt at the poll that obtains
\* it, otherwise with the context's error after transaction_timeout passed or
\* the context was cancelled; no receipt poll is issued after the
\* cancellation is observed.
C22_WaitMinedAlwaysReturns ==
    /\ []WaitMinedReturnsRight
    /\ <>(wm.pc = "done")

\* WaitMined polled more than once and returned the error of a context that
\* reached its deadline, although the transaction had been included by then.
C22_Witness ==
    /\ wm.pc = "done"
    /\ wm.err = ErrDeadlineExceeded
    /\ wm.polls >= 2
    /\ wm.mined
    /\ wm.timeout > 0

(***************************************************************************)
(* Further properties of the transaction lifecycle (LifeSpec)              *)
(***************************************************************************)
\* C23: RetryTxAndDecode re-invokes the submit function only when its error
\* contains `connection refused`, waits a fixed 1 s between attempts, and
\* never invokes it more than 10 times.
C23_RetryOnlyOnConnectionRefused ==
    life.entry = "RetryTxAndDecode" =>
      /\ life.attempts <= 10
      /\ \A e \in life.retriedOn : e \in {ErrConnectionRefused, ErrDialRefused}
      /\ life.attempts >= 2 => life.retriedOn # {}
      /\ life.waited = 1 * (IF life.pc = "submit" THEN life.attempts
                            ELSE life.attempts - 1)

\* The submit function was invoked ten times, each failure but the last
\* followed by a one-second wait, and RetryTxAndDecode gave up.
C23_Witness ==
    /\ life.entry = "RetryTxAndDecode"
    /\ life.pc = "done"
    /\ life.attempts = 10
    /\ life.waited = 9
    /\ life.cause = "submit"

\* C24: an error returned by the node when the transaction is sent reaches
\* the caller of the lifecycle unchanged.
C24_SendErrorSurfacedAsIs ==
    (life.pc = "done" /\ life.sendErr = ErrRejected) => life.err = ErrRejected

\* C25: if a signed variant of the transaction, be it the one whose receipt
\* is polled at that time or another one (the original or an earlier
\* replacement), is included while the lifecycle is still waiting for a
\* deadline, the lifecycle ends by returning the receipt of that variant and
\* no error. Stated for the variants that are not the polled one; the polled
\* one is the case of WaitMined itself.
C25_IncludedVariantYieldsReceipt ==
    (life.pc = "done" /\ node.included # NoTx /\ node.inWait
       /\ node.included # node.watched) =>
      (life.err = "none" /\ life.receipt = node.included)

\* C26: if the node rejects the send of a replacement, bumpGasOnTimeout
\* returns the transaction that was watched before the bump, and the
\* lifecycle goes on watching it, so that a later poll can see its receipt.
C26_RejectedBumpKeepsWatched ==
    (lastBump.sendTried /\ lastBump.err = ErrRejected) =>
      /\ lastBump.result = lastBump.before
      /\ tx = lastBump.before
      /\ (life.pc = "done" /\ life.err = "none") => life.receipt = lastBump.before

\* The send of a replacement with raised fees was rejected, the transaction
\* watched before was included afterwards, and the lifecycle returned its receipt.
C26_Witness ==
    /\ lastBump.sendTried
    /\ lastBump.err = ErrRejected
    /\ FeeOf(lastBump.signed) > FeeOf(lastBump.before)
    /\ life.pc = "done"
    /\ life.err = "none"
    /\ life.receipt = lastBump.before

\* C27: when a deadline has elapsed and TransactionByHash reports that the
\* transaction is no longer pending, the bump strategy is not invoked and no
\* replacement is signed or sent; bumpGasOnTimeout returns the transaction it
\* was given, without error, and the lifecycle goes on with it.
C27_NoBumpWhenNotPending ==
    (lastBump.called /\ lastBump.byHash = "notPending") =>
      /\ lastBump.calls = 0
      /\ lastBump.signed = NoTx
      /\ ~lastBump.sendTried
      /\ lastBump.err = "none"
      /\ lastBump.result = lastBump.before
      /\ tx = lastBump.before

\* A transaction included just before its deadline fired was found not
\* pending by bumpGasOnTimeout under a fee-raising strategy, and the next
\* wait returned its receipt.
C27_Witness ==
    /\ lastBump.called
    /\ lastBump.byHash = "notPending"
    /\ life.strategy # "noop"
    /\ life.bumps = 1
    /\ life.pc = "done"
    /\ life.receipt = lastBump.before
    /\ life.receipt = life.orig

(***************************************************************************)
(* Properties of the header fan-out (FanSpec)                              *)
(***************************************************************************)
\* C28: every header fetched by the fan-out is in the header list when the
\* 80 % threshold is evaluated and the metric is computed; none is still in
\* the channel.
C28_AllFetchedHeadersCounted ==
    fan.pc = "evaluated" =>
      /\ \A b \in fan.fetched : \E i \in 1..Len(fan.seen) : fan.seen[i] = b
      /\ fan.dataCh = <<>>

\* C32: the headers the metric and the 80 % count are taken over are headers
\* of the last blocksNumber blocks, and no block number is among them twice.
C32_EachBlockCountedOnce ==
    fan.pc = "evaluated" =>
      /\ \A i \in 1..Len(fan.seen) : fan.seen[i] \in LastBlock..(LastBlock + fan.n - 1)
      /\ \A i, j \in 1..Len(fan.seen) : fan.seen[i] = fan.seen[j] => i = j

(***************************************************************************)
(* Properties of the fee equalizer (EqSpec)                                *)
(***************************************************************************)
\* Two fees that are at least three orders of magnitude apart, or of which
\* one is zero.
FarApart(a, b) == a = 0 \/ b = 0 \/ a >= 1000 * b \/ b >= 1000 * a

\* C29: with the fee-equalizer experiment enabled, baseFee and suggestedTip
\* are altered only when they differ by at least 3 orders of magnitude or one
\* of them is zero, and then the lower is raised to equal the higher; neither
\* value is ever lowered.
C29_EqualizerOnlyLifts ==
    (eq.pc = "done" /\ eq.enabled) =>
      /\ eq.outBaseFee >= eq.baseFee
      /\ eq.outTip >= eq.tip
      /\ (eq.outBaseFee # eq.baseFee \/ eq.outTip # eq.tip) =>
           /\ FarApart(eq.baseFee, eq.tip)
           /\ eq.outBaseFee = Max(eq.baseFee, eq.tip)
           /\ eq.outTip = Max(eq.baseFee, eq.tip)

(***************************************************************************)
(* Properties of the legacy oracle on a quiet network (WeiSpec)            *)
(***************************************************************************)
\* C30: with a congestion metric of 0 the legacy oracle returns exactly the
\* node's suggested gas price times the adjustment factor of the priority,
\* plus the buffer of the low congestion class (5 %); stated for prices that
\* the cap on the transaction cost does not reach.
C30_QuietPriceIsFactorTimesHint ==
    (/\ est.pc = "done"
     /\ est.kind = "legacy"
     /\ est.err = ""
     /\ est.metric = 0
     /\ 2 * est.hint * gasCfg.GasLimit <= gasCfg.MaxTxCost) =>
      LET byFactor == (est.hint * getAdjustmentFactor(est.priority).factor) \div 10
      IN est.fee = byFactor + (byFactor * 5) \div 100


\* C31: when the EIP-1559 fee cap is cut down to fit maxAllowedTxCost, the
\* returned tip is the tip before capping times the returned fee cap divided
\* by the fee cap before capping (to within one wei of rounding).
C31_TipScaledLikeFeeCap ==
    (/\ est.pc = "done"
     /\ est.kind = "eip1559"
     /\ est.err = ""
     /\ est.capped)
        => LET exact == est.adjustedTipCap * est.fee
               got2 == est.tip * est.maxProposedFeeCap
           IN /\ got2 <= exact + est.maxProposedFeeCap
              /\ exact <= got2 + est.maxProposedFeeCap


(***************************************************************************)
(* Properties of the missing-call reconciliation (ReconSpec)               *)
(***************************************************************************)
\* The calls stored for the transaction that carry the missing-call comment.
SynthesisedFor(sel) ==
    { i \in 1..Len(DecodedCalls[TxHash]) :
        /\ DecodedCalls[TxHash][i].comment = WrnMissingCallTrace
        /\ DecodedCalls[TxHash][i].signature = sel }

\* C33: the frame list stored for a traced transaction holds exactly one
\* synthesised call with the missing-from-call-trace comment for each selector
\* of the 4byte trace that no frame of the call trace has, and none for a
\* selector that a frame has.
C33_OneSynthesisedCallPerMissingSelector ==
    (dec.pc = "done" /\ TxHash \in DOMAIN DecodedCalls) =>
        \A sel \in DOMAIN dec.fourByte :
            Cardinality(SynthesisedFor(sel))
              = IF \E i \in 1..Len(dec.frames) : dec.frames[i].sel = sel THEN 0 ELSE 1


\* C34: a call trace with a frame whose input holds no 4-byte selector does
\* not make tracing fail: Decode of a mined, successful transaction with
\* tracing enabled returns no error, and the frames are stored under its hash.
C34_SelectorlessFrameDoesNotFailTracing ==
    (/\ dec.pc = "done"
     /\ TracingEnabled(tracing)
     /\ dec.pre = "ok" /\ dec.mined /\ dec.status = 1 /\ dec.traceRPC
     /\ \E i \in 1..Len(dec.frames) : dec.frames[i] = "short"
     /\ \A i \in 1..Len(dec.frames) : dec.frames[i] \in {"short", "ok"})
        => /\ dec.err = ""
           /\ TxHash \in DOMAIN DecodedCalls


\* C35: once the Decode of a transaction has reported the error recorded
\* while its options were built, the Decode of a later transaction built from
\* a successful NewTXOpts / NewTXKeyOpts call reports no such error.
C35_OptionErrorReportedOnce ==
    \A i \in 1..Len(optsLog) :
        (/\ optsLog[i].ok
         /\ optsLog[i].decoded
         /\ \E j \in 1..(i - 1) : ~optsLog[j].ok /\ optsLog[j].decoded)
            => optsLog[i].decodeErr = ""


\* C36: every key of the contract map is a lowercase address, whether the
\* entry came from DeployContract or from the contract map file, and a lookup
\* by the key in any letter case finds the entry.
C36_KeysAreLowercase ==
    \A k \in DOMAIN contractMap :
        /\ k = ToLower(k)
        /\ GetContractNameIn(contractMap, k) = contractMap[k]
        /\ GetContractNameIn(contractMap, ToLower(k)) = contractMap[k]


(***************************************************************************)
(* Properties of the cached header objects (ItemSpec)                      *)
(***************************************************************************)
\* The original statement of C37: Get returns the object first inserted for
\* the number, for as long as the entry stays cached.
C37_Original ==
    \A bn \in DOMAIN cache : GetReturns(bn) = items[bn].first

\* C37: for as long as the entry of a block number stays cached, Get returns
\* the object most recently stored by Set for that number.
C37_GetReturnsLastStored ==
    /\ DOMAIN items = DOMAIN cache
    /\ \A bn \in DOMAIN cache : GetReturns(bn) = items[bn].last

\* A cached block whose header was stored a second time, as another object.
C37_Witness ==
    \E bn \in DOMAIN cache :
        /\ items[bn].last # items[bn].first
        /\ GetReturns(bn) = items[bn].last


(***************************************************************************)
(* Properties of concurrent tracing (TracersSpec)                          *)
(***************************************************************************)
\* C38: the writes to Tracer.DecodedCalls are mutually exclusive, and after
\* concurrent Decode calls with tracing for different transactions each
\* transaction hash maps to the frame list of its own transaction.
C38_DecodedCallsWritesExclusive ==
    /\ \A g, h \in Tracers :
          (tracers[g].pc = "writing" /\ tracers[h].pc = "writing") => g = h
    /\ \A g \in Tracers :
          /\ tracers[g].pc # "fatal"
          /\ tracers[g].pc = "done" =>
                /\ HashOf(g) \in DOMAIN DecodedCalls
                /\ DecodedCalls[HashOf(g)] = tracers[g].calls


\* C39: every pair of fees GetSuggestedEIP1559Fees returns has a tip cap that
\* is not above the fee cap, whether or not the fee cap was cut down to
\* maxAllowedTxCost and whether or not the fee equalizer ran.
C39_TipNeverAboveFeeCap ==
    (est.pc = "done" /\ est.kind = "eip1559" /\ est.err = "") => est.tip <= est.fee

\* An estimation with the equalizer on whose fee cap was cut down and whose
\* tip was scaled to a smaller, non-zero amount.
C39_Witness ==
    /\ est.pc = "done" /\ est.kind = "eip1559" /\ est.err = ""
    /\ est.equalize
    /\ est.capped
    /\ est.suggestedGasTip # Max(est.hint, est.histTip)
    /\ 0 < est.tip /\ est.tip < est.adjustedTipCap
    /\ est.tip <= est.fee


(***************************************************************************)
(* Properties of the priority-based bump strategies (BumpSpec)             *)
(***************************************************************************)
\* C40: each of the strategies built for slow, standard, fast and degen
\* returns a fee strictly greater than the fee it was given, for every fee
\* of at least 1.
C40_StrategyRaisesFee ==
    (bump.pc = "done" /\ bump.priority \in {"slow", "standard", "fast", "degen"})
        => bump.out > bump.fee

====
